---------------------------- MODULE Spec2Model ----------------------------
(***************************************************************************)
(* Model of the staffing optimization system.                              *)
(*   - src/src/forecast_model.py: StaffingConfig and CostOptimizer (Spec), *)
(*     calculate_total_cost in binary64 (SpecFloat),                       *)
(*     generate_enhanced_historical_data (SpecSynth), AdvancedForecaster   *)
(*     called in sequence (SpecForecaster) and from two threads            *)
(*     (SpecConcurrent);                                                   *)
(*   - src/api/main.py: POST /api/v1/optimize (SpecApi).                   *)
(*                                                                         *)
(* Numbers.  The program computes in binary floating point.  Spec and      *)
(* the specifications of the other components compute the same             *)
(* expressions exactly, over the rationals, carried as scaled integers:    *)
(*   - an order volume or a capacity v is the integer v * VolScale;        *)
(*   - a fraction of the configuration (absenteeism, break coverage,       *)
(*     skill requirement, service-level target) is an integer percentage;  *)
(*   - hours of overtime h for an order type of base productivity bp are   *)
(*     the integer h * VolScale * bp;                                      *)
(*   - an amount of money is a record [inf, c, f]: c whole cents plus      *)
(*     f / (VolScale * bp) of a cent, 0 <= f < VolScale * bp; inf marks    *)
(*     float('inf');                                                       *)
(*   - a ratio (service level, capacity utilization) is [num, den].        *)
(* Rounding in the last binary digit is not part of these; SpecFloat       *)
(* computes calculate_total_cost as the interpreter does, every operation  *)
(* rounded to binary64.                                                    *)
(***************************************************************************)
EXTENDS Integers, Sequences, FiniteSets, TLC

VARIABLES
    config,        \* the StaffingConfig the optimizer was built with
    pc,            \* "configured" | "ready" | "calling" | "costed" | "optimized"
    row,           \* the forecast record of the last optimize_shift_staffing call
    result,        \* what that call returned, or the error it raised
    evals,         \* number of calculate_total_cost calls that call made
    cost_args,     \* arguments of the last direct calculate_total_cost call
    cost_metrics,  \* the breakdown that call returned
    gen_args,      \* arguments of the last generate_enhanced_historical_data call
    gen_rows,      \* the rows of the DataFrame that call returned
    models,        \* AdvancedForecaster.models: (shift, order_type) -> fitted model
    feature_importance, \* AdvancedForecaster.feature_importance, same keys
    fpc,           \* "new" | "idle" | "trained" | "forecasted": the forecaster's last call
    historical_data, \* the rows train_models was last called with
    df_clean,      \* the rows that call kept for training (its df_clean)
    created,       \* the segments that call fitted a model for
    forecast_args, \* arguments of the last forecast_demand call
    forecasts,     \* the records that call returned
    reference,     \* arguments and records of an earlier forecast_demand call
    train,         \* a train_models call in progress (its position), or None
    reader,        \* a forecast_demand call in progress (its position), or None
    api_optimizer, \* the global optimizer of src/api/main.py
    api_request,   \* forecast_data of the last POST /api/v1/optimize
    api_response,  \* the response to it
    api_constraints, \* constraints of that request
    api_forecaster,  \* the global forecaster of src/api/main.py
    api_init,      \* the position of a running initialize_models
    api_tasks,     \* initialize_models tasks created and not yet run
    api_started,   \* startup_event has run
    api_full,      \* "none" | "scheduled" | "done": execute_full_optimization
    api_forecast,  \* the last POST /api/v1/forecast: request, response
    api_ready,     \* the response to the last GET /health/ready
    api_was_ready  \* a readiness check has succeeded

\* the cost optimizer
ovars == <<config, pc, row, result, evals, cost_args, cost_metrics>>

\* the historical data synthesizer
svars == <<gen_args, gen_rows>>

\* the forecaster
fvars == <<models, feature_importance, fpc, historical_data, df_clean, created,
           forecast_args, forecasts, reference, train, reader>>

\* the HTTP layer
avars == <<api_optimizer, api_request, api_response, api_constraints,
           api_forecaster, api_init, api_tasks, api_started, api_full,
           api_forecast, api_ready, api_was_ready>>

vars == <<ovars, svars, fvars, avars>>

---------------------------------------------------------------------------
(* Units *)

\* Volumes are carried in 1/500 of an order: the demands below are multiples
\* of 1/20 of an order and the capacities multiples of 1/125.
VolScale == 20 * 25

\* staff * (100 - a) * (100 - b) * bp is the capacity in 1/10000 of an order.
CapDen == (100 * 100) \div VolScale

Min(a, b) == IF a < b THEN a ELSE b

Max(a, b) == IF a > b THEN a ELSE b

---------------------------------------------------------------------------
(* Money *)

Money(c, f) == [inf |-> FALSE, c |-> c, f |-> f]

Zero == Money(0, 0)

\* float('inf')
Infinity == [inf |-> TRUE, c |-> 0, f |-> 0]

\* whole cents
Cents(c) == Money(c, 0)

\* n * rate / den cents, exactly, as whole cents plus a fraction over den
Scaled(n, rate, den) ==
    LET q == n \div den
        r == n % den
    IN  Money(q * rate + (r * rate) \div den, (r * rate) % den)

\* a + b, both fractions over den
Plus(a, b, den) ==
    Money(a.c + b.c + (a.f + b.f) \div den, (a.f + b.f) % den)

\* a < b for floats, with float('inf') above every finite amount
Less(a, b) ==
    /\ ~a.inf
    /\ \/ b.inf
       \/ a.c < b.c
       \/ a.c = b.c /\ a.f < b.f

LessEq(a, b) == Less(a, b) \/ a = b

IsPositive(a) == Less(Zero, a)

IsNonNegative(a) == LessEq(Zero, a)

---------------------------------------------------------------------------
(* 1. Configuration and constants: class StaffingConfig *)

REGULAR_RATE == 1850

OVERTIME_RATE == 2775

MIN_STAFF_PER_SHIFT == 2

MAX_STAFF_PER_SHIFT == 25

BREAK_COVERAGE_FACTOR == 20

TARGET_SERVICE_LEVEL == 98

UNDERSTAFFING_PENALTY == 15000

\* forklift_certified, hazmat_trained, team_leads, experienced
SKILL_REQUIREMENTS == <<30, 15, 10, 60>>

\* Monday = 0 is element 1
ABSENTEEISM_RATES == <<8, 6, 7, 9, 12, 15, 18>>

\* the class as written
DefaultConfig ==
    [ REGULAR_RATE          |-> REGULAR_RATE,
      OVERTIME_RATE         |-> OVERTIME_RATE,
      MIN_STAFF_PER_SHIFT   |-> MIN_STAFF_PER_SHIFT,
      MAX_STAFF_PER_SHIFT   |-> MAX_STAFF_PER_SHIFT,
      TARGET_SERVICE_LEVEL  |-> TARGET_SERVICE_LEVEL,
      UNDERSTAFFING_PENALTY |-> UNDERSTAFFING_PENALTY,
      SKILL_REQUIREMENTS    |-> SKILL_REQUIREMENTS ]


---------------------------------------------------------------------------
(* 4. Cost optimization engine: class CostOptimizer *)

OrderTypes == {"E-commerce", "B2B", "Express", "Other"}

\* productivity_rates.get(order_type, 18)
base_productivity(order_type) ==
    CASE order_type = "E-commerce" -> 18
      [] order_type = "B2B"        -> 22
      [] order_type = "Express"    -> 12
      [] OTHER                     -> 18

\* the denominator of the fractions of a cent, for an order type
MoneyDen(order_type) == VolScale * base_productivity(order_type)

\* int(staff_count * pct), pct a percentage, staff_count >= 0
IntOfShare(staff_count, pct) == (staff_count * pct) \div 100

RECURSIVE SkillsPenaltyFrom(_, _, _)
\* the for loop of calculate_skills_penalty over the skills i..Len, in cents
SkillsPenaltyFrom(cfg, staff_count, i) ==
    IF i > Len(cfg.SKILL_REQUIREMENTS) THEN 0
    ELSE LET required_count  == Max(1, IntOfShare(staff_count, cfg.SKILL_REQUIREMENTS[i]))
             available_count == Max(1, IntOfShare(staff_count, 60))
             shortage        == required_count - available_count
         IN  (IF available_count < required_count THEN shortage * 5000 ELSE 0)
             + SkillsPenaltyFrom(cfg, staff_count, i + 1)

\* a penalty against an availability of 50 % of the staff: every required
\* fraction weighs ten points more
SkillsPenaltyOfHalfAvailable(cfg, staff_count) ==
    Cents(SkillsPenaltyFrom(
              [cfg EXCEPT !.SKILL_REQUIREMENTS =
                              [i \in DOMAIN @ |-> @[i] + 10]],
              staff_count, 1))

calculate_skills_penalty(cfg, staff_count) ==
    Cents(SkillsPenaltyFrom(cfg, staff_count, 1))

\* productive_staff * base_productivity, in 1/VolScale of an order
total_capacity(staff_count, order_type, weekday) ==
    LET absenteeism_rate == ABSENTEEISM_RATES[weekday + 1]
    IN  (staff_count * (100 - absenteeism_rate) * (100 - BREAK_COVERAGE_FACTOR)
            * base_productivity(order_type)) \div CapDen

\* min(staff_count * 4, shortage / base_productivity) when the forecast exceeds
\* the capacity, else 0; in 1/(VolScale * bp) of an hour
overtime_hours(staff_count, forecast_volume, order_type, weekday) ==
    LET capacity == total_capacity(staff_count, order_type, weekday)
        shortage == forecast_volume - capacity
    IN  IF forecast_volume > capacity
        THEN Min(staff_count * 4 * MoneyDen(order_type), shortage)
        ELSE 0

\* total_capacity + overtime_hours * base_productivity
final_capacity(staff_count, forecast_volume, order_type, weekday) ==
    total_capacity(staff_count, order_type, weekday)
        + overtime_hours(staff_count, forecast_volume, order_type, weekday)

\* understaffing_cost with its comparison inverted
UnderstaffingCostInverted(cfg, forecast_volume, capacity, order_type) ==
    IF capacity > forecast_volume
    THEN Scaled((forecast_volume - capacity) * base_productivity(order_type),
                cfg.UNDERSTAFFING_PENALTY, MoneyDen(order_type))
    ELSE Zero

\* missed_orders * UNDERSTAFFING_PENALTY when the forecast exceeds the final capacity
understaffing_cost(cfg, forecast_volume, capacity, order_type) ==
    IF forecast_volume > capacity
    THEN Scaled((forecast_volume - capacity) * base_productivity(order_type),
                cfg.UNDERSTAFFING_PENALTY, MoneyDen(order_type))
    ELSE Zero

\* service_level with its ratio inverted: min(1.0, forecast_volume / final_capacity)
ServiceLevelInverted(forecast_volume, capacity) ==
    IF forecast_volume > 0
    THEN [num |-> Min(forecast_volume, capacity), den |-> capacity]
    ELSE [num |-> 1, den |-> 1]

\* min(1.0, final_capacity / forecast_volume) if forecast_volume > 0 else 1.0
service_level(forecast_volume, capacity) ==
    IF forecast_volume > 0
    THEN [num |-> Min(forecast_volume, capacity), den |-> forecast_volume]
    ELSE [num |-> 1, den |-> 1]

\* forecast_volume / final_capacity if final_capacity > 0 else 0
capacity_utilization(forecast_volume, capacity) ==
    IF capacity > 0
    THEN [num |-> forecast_volume, den |-> capacity]
    ELSE [num |-> 0, den |-> 1]

\* total_cost without the skills penalty
TotalCostWithoutSkills(regular, overtime, understaffing, skills, order_type) ==
    Plus(Plus(regular, overtime, MoneyDen(order_type)),
         understaffing, MoneyDen(order_type))

\* regular_cost + overtime_cost + understaffing_cost + skills_penalty
total_cost(regular, overtime, understaffing, skills, order_type) ==
    Plus(Plus(Plus(regular, overtime, MoneyDen(order_type)),
              understaffing, MoneyDen(order_type)),
         skills, MoneyDen(order_type))

calculate_total_cost(cfg, staff_count, forecast_volume, order_type, weekday) ==
    LET den             == MoneyDen(order_type)
        regular_hours   == staff_count * 8
        regular_cost    == Cents(regular_hours * cfg.REGULAR_RATE)
        ot_hours        == overtime_hours(staff_count, forecast_volume, order_type, weekday)
        overtime_cost   == Scaled(ot_hours, cfg.OVERTIME_RATE, den)
        capacity        == final_capacity(staff_count, forecast_volume, order_type, weekday)
        understaffing   == understaffing_cost(cfg, forecast_volume, capacity, order_type)
        skills_penalty  == calculate_skills_penalty(cfg, staff_count)
    IN  [ total_cost           |-> total_cost(regular_cost, overtime_cost, understaffing,
                                              skills_penalty, order_type),
          regular_cost         |-> regular_cost,
          overtime_cost        |-> overtime_cost,
          understaffing_cost   |-> understaffing,
          skills_penalty       |-> skills_penalty,
          overtime_hours       |-> ot_hours,
          service_level        |-> service_level(forecast_volume, capacity),
          capacity_utilization |-> capacity_utilization(forecast_volume, capacity) ]

---------------------------------------------------------------------------
(* optimize_shift_staffing *)

\* Python's None, and best_metrics before any candidate was kept
None == [none |-> TRUE]

\* optimization_volume taken from the point forecast
OptimizationVolumeFromForecast(rw) == rw.ForecastVolume

\* optimization_volume = upper_bound
optimization_volume(rw) == rw.UpperBound

\* cost_metrics['service_level'] >= self.config.TARGET_SERVICE_LEVEL
MeetsTarget(cfg, metrics) ==
    metrics.service_level.num * 100 >= cfg.TARGET_SERVICE_LEVEL * metrics.service_level.den

\* a first loop without the service level test
FirstPassConsidersAll(cfg, metrics) == TRUE

\* the first loop only considers solutions that meet the service level target
FirstPassConsiders(cfg, metrics) == MeetsTarget(cfg, metrics)

\* a second loop that kept the service level test of the first
SecondPassConsidersFeasible(cfg, metrics) == MeetsTarget(cfg, metrics)

\* the second loop considers every staffing level
SecondPassConsiders(cfg, metrics) == TRUE

\* the comparison with <= for <
ImprovesOrTies(cost, best_cost) == LessEq(cost, best_cost)

\* cost_metrics['total_cost'] < best_cost
Improves(cost, best_cost) == Less(cost, best_cost)

\* range(MIN_STAFF_PER_SHIFT, MAX_STAFF_PER_SHIFT + 1)
FirstStaff(cfg) == cfg.MIN_STAFF_PER_SHIFT

\* a range that runs one past the maximum
LastStaffOneTooMany(cfg) == cfg.MAX_STAFF_PER_SHIFT + 1

LastStaff(cfg) == cfg.MAX_STAFF_PER_SHIFT

StaffRange(cfg) == FirstStaff(cfg) .. LastStaff(cfg)

\* best_cost started at 0 for float('inf')
InitialBestFromZero(cfg) ==
    [ best_staff   |-> cfg.MIN_STAFF_PER_SHIFT,
      best_cost    |-> Zero,
      best_metrics |-> None,
      evals        |-> 0 ]

\* best_staff, best_cost, best_metrics before the first loop
InitialBest(cfg) ==
    [ best_staff   |-> cfg.MIN_STAFF_PER_SHIFT,
      best_cost    |-> Infinity,
      best_metrics |-> None,
      evals        |-> 0 ]

\* one iteration of either loop
LoopBody(cfg, rw, firstPass, staff_count, best) ==
    LET metrics    == calculate_total_cost(cfg, staff_count, optimization_volume(rw),
                                           rw.OrderType, rw.Date)
        considered == IF firstPass THEN FirstPassConsiders(cfg, metrics)
                                   ELSE SecondPassConsiders(cfg, metrics)
    IN  IF considered /\ Improves(metrics.total_cost, best.best_cost)
        THEN [ best_staff   |-> staff_count,
               best_cost    |-> metrics.total_cost,
               best_metrics |-> metrics,
               evals        |-> best.evals + 1 ]
        ELSE [best EXCEPT !.evals = @ + 1]

RECURSIVE Loop(_, _, _, _, _)
\* the iterations of a loop from staff_count on
\* (the test of evals is always false: it makes TLC evaluate best before it
\* enters the next iteration rather than after the last one)
Loop(cfg, rw, firstPass, staff_count, best) ==
    IF staff_count > LastStaff(cfg) \/ best.evals < 0 THEN best
    ELSE Loop(cfg, rw, firstPass, staff_count + 1,
              LoopBody(cfg, rw, firstPass, staff_count, best))

\* both loops: the second runs if the first kept nothing
Search(cfg, rw) ==
    LET first == Loop(cfg, rw, TRUE, FirstStaff(cfg), InitialBest(cfg))
    IN  IF first.best_metrics = None
        THEN Loop(cfg, rw, FALSE, FirstStaff(cfg), first)
        ELSE first

\* the return statement: subscripting best_metrics raises TypeError when it is None
ReturnValue(best) ==
    IF best.best_metrics = None
    THEN [error |-> "TypeError"]
    ELSE [ OptimalStaff        |-> best.best_staff,
           TotalCost           |-> best.best_cost,
           ServiceLevel        |-> best.best_metrics.service_level,
           OvertimeHours       |-> best.best_metrics.overtime_hours,
           CapacityUtilization |-> best.best_metrics.capacity_utilization ]
         @@ best.best_metrics

optimize_shift_staffing(cfg, rw) == ReturnValue(Search(cfg, rw))

Raised(res) == "error" \in DOMAIN res

Returned(res) == "OptimalStaff" \in DOMAIN res

---------------------------------------------------------------------------
(* Inputs *)

\* number of steps of each demand grid
MaxFineDemand == 6

MaxCoarseDemand == 6

\* 29.9 orders: fractional upper bounds, as a caller may send, and whole ones
FineStep == (115 * 26 * VolScale) \div 100

\* 517.5 orders
CoarseStep == (115 * 450 * VolScale) \div 100

\* demands, in 1/VolScale of an order; 150 orders is the test suite's volume
Demands ==
    {k * FineStep : k \in 0 .. MaxFineDemand}
        \cup {k * CoarseStep : k \in 0 .. MaxCoarseDemand}
        \cup {150 * VolScale}

\* date.weekday()
Weekdays == 0 .. 6

\* point forecasts of a record: UpperBound / 1.15 (rounded down to 1/VolScale)
\* or zero
ForecastVolumes(ub) == {(ub * 100) \div 115, 0}

\* forecast records
Rows ==
    UNION { { [ Date |-> d, Shift |-> "Morning", OrderType |-> ot,
                ForecastVolume |-> fv, UpperBound |-> ub ] :
              d \in Weekdays, ot \in OrderTypes, fv \in ForecastVolumes(ub) } :
            ub \in Demands }

\* Configurations.  StaffingConfig has no constructor and no validation: its
\* attributes are plain class attributes that a deployment overrides by
\* subclassing or assignment, so every combination of values is constructible.

\* a small shift
SmallConfig ==
    [DefaultConfig EXCEPT !.MIN_STAFF_PER_SHIFT = 2, !.MAX_STAFF_PER_SHIFT = 3]

\* one admissible staffing level, and a target of 100 %
StrictConfig ==
    [DefaultConfig EXCEPT !.MIN_STAFF_PER_SHIFT = 4, !.MAX_STAFF_PER_SHIFT = 4,
                          !.TARGET_SERVICE_LEVEL = 100]

\* 12.50 an hour and two skills required of 70 % of the shift: with no demand
\* 3 staff cost 300.00 + 100.00 penalty, 4 staff cost 400.00
SkilledConfig ==
    [DefaultConfig EXCEPT !.MIN_STAFF_PER_SHIFT = 3, !.MAX_STAFF_PER_SHIFT = 5,
                          !.REGULAR_RATE = 1250, !.OVERTIME_RATE = 1875,
                          !.SKILL_REQUIREMENTS = <<70, 70>>]

\* a penalty of 1.00 per missed order: missing orders is cheaper than staffing
LenientConfig ==
    [DefaultConfig EXCEPT !.MIN_STAFF_PER_SHIFT = 2, !.MAX_STAFF_PER_SHIFT = 6,
                          !.UNDERSTAFFING_PENALTY = 100]

\* bounds inverted
InvertedConfig ==
    [DefaultConfig EXCEPT !.MIN_STAFF_PER_SHIFT = 5, !.MAX_STAFF_PER_SHIFT = 2]

\* rates zero and negative
BadRatesConfig ==
    [DefaultConfig EXCEPT !.MIN_STAFF_PER_SHIFT = 2, !.MAX_STAFF_PER_SHIFT = 3,
                          !.REGULAR_RATE = 0, !.OVERTIME_RATE = -2775]

Configs ==
    {DefaultConfig, SmallConfig, StrictConfig, SkilledConfig, LenientConfig,
     InvertedConfig, BadRatesConfig}

\* what section 7 of the specification calls a configuration without violation
ValidConfig(cfg) ==
    /\ cfg.MIN_STAFF_PER_SHIFT <= cfg.MAX_STAFF_PER_SHIFT
    /\ cfg.REGULAR_RATE > 0
    /\ cfg.OVERTIME_RATE > 0
    /\ cfg.UNDERSTAFFING_PENALTY > 0

\* staff counts of direct calculate_total_cost calls: the range and just outside
StaffCounts(cfg) == 1 .. (cfg.MAX_STAFF_PER_SHIFT + 1)

---------------------------------------------------------------------------
(* The state machine *)

\* no historical data has been generated
NoSynthesis ==
    /\ gen_args = None
    /\ gen_rows = None

\* AdvancedForecaster.__init__ has not run
NoForecaster ==
    /\ models = None
    /\ feature_importance = None
    /\ fpc = "new"
    /\ historical_data = None
    /\ df_clean = None
    /\ created = None
    /\ forecast_args = None
    /\ forecasts = None
    /\ reference = None
    /\ train = None
    /\ reader = None

\* the HTTP layer has not been started
NoApi ==
    /\ api_optimizer = None
    /\ api_request = None
    /\ api_response = None
    /\ api_constraints = None
    /\ api_forecaster = None
    /\ api_init = "idle"
    /\ api_tasks = 0
    /\ api_started = FALSE
    /\ api_full = "none"
    /\ api_forecast = None
    /\ api_ready = None
    /\ api_was_ready = FALSE

\* no CostOptimizer has been constructed
NoOptimizer ==
    /\ config = None
    /\ pc = "none"
    /\ row = None
    /\ result = None
    /\ evals = 0
    /\ cost_args = None
    /\ cost_metrics = None

Init ==
    /\ config \in Configs
    /\ pc = "configured"
    /\ row = None
    /\ result = None
    /\ evals = 0
    /\ cost_args = None
    /\ cost_metrics = None
    /\ NoSynthesis
    /\ NoForecaster
    /\ NoApi

\* CostOptimizer.__init__: self.config = config
CostOptimizerInit ==
    /\ pc = "configured"
    /\ pc' = "ready"
    /\ UNCHANGED <<config, row, result, evals, cost_args, cost_metrics>>
    /\ UNCHANGED <<svars, fvars, avars>>

\* a call of calculate_total_cost by a client of the optimizer
CalculateTotalCost ==
    /\ pc = "ready"
    /\ \E staff_count \in StaffCounts(config), forecast_volume \in Demands,
          order_type \in OrderTypes, weekday \in Weekdays :
          /\ cost_args' = [ staff_count |-> staff_count,
                            forecast_volume |-> forecast_volume,
                            order_type |-> order_type, weekday |-> weekday ]
          /\ cost_metrics' = calculate_total_cost(config, staff_count, forecast_volume,
                                                  order_type, weekday)
    /\ pc' = "costed"
    /\ row' = None
    /\ result' = None
    /\ evals' = 0
    /\ UNCHANGED config
    /\ UNCHANGED <<svars, fvars, avars>>

\* a call of optimize_shift_staffing
OptimizeShiftStaffing ==
    /\ pc = "ready"
    /\ \E rw \in Rows :
          LET best == Search(config, rw)
          IN  /\ row' = rw
              /\ result' = ReturnValue(best)
              /\ evals' = best.evals
    /\ pc' = "optimized"
    /\ cost_args' = None
    /\ cost_metrics' = None
    /\ UNCHANGED config
    /\ UNCHANGED <<svars, fvars, avars>>

\* the caller has taken the value of a call; the optimizer keeps no state of it
Consume ==
    /\ pc \in {"costed", "optimized"}
    /\ pc' = "ready"
    /\ row' = None
    /\ result' = None
    /\ evals' = 0
    /\ cost_args' = None
    /\ cost_metrics' = None
    /\ UNCHANGED config
    /\ UNCHANGED <<svars, fvars, avars>>

Next ==
    \/ CostOptimizerInit
    \/ Consume
    \/ CalculateTotalCost
    \/ OptimizeShiftStaffing

Spec == Init /\ [][Next]_vars


---------------------------------------------------------------------------
(* Vocabulary of the properties *)

RECURSIVE RatioLeq(_, _)
\* a.num / a.den <= b.num / b.den for ratios of naturals, without multiplying
\* numerators by denominators: whole parts first, then the reciprocals of the
\* fractional parts, as in Euclid's algorithm
RatioLeq(a, b) ==
    LET qa == a.num \div a.den
        qb == b.num \div b.den
        ra == a.num % a.den
        rb == b.num % b.den
    IN  IF qa # qb THEN qa < qb
        ELSE IF ra = 0 THEN TRUE
        ELSE IF rb = 0 THEN FALSE
        ELSE RatioLeq([num |-> b.den, den |-> rb], [num |-> a.den, den |-> ra])

\* a service level read against the configured target
AtLeastTarget(sl) == sl.num * 100 >= config.TARGET_SERVICE_LEVEL * sl.den

BelowTarget(sl) == ~AtLeastTarget(sl)

\* the configured staff range
ConfiguredRange == config.MIN_STAFF_PER_SHIFT .. config.MAX_STAFF_PER_SHIFT

\* the Cost Model at a staff count for the demand of the record of the last search
CostAt(staff_count) ==
    calculate_total_cost(config, staff_count, row.UpperBound, row.OrderType, row.Date)

FeasibleAt(staff_count) == AtLeastTarget(CostAt(staff_count).service_level)

FeasibleSet == {s \in ConfiguredRange : FeasibleAt(s)}

\* a search has been made and it returned a result
SearchReturned == pc = "optimized" /\ Returned(result)

\* the eight fields of a cost breakdown
BreakdownFields ==
    {"total_cost", "regular_cost", "overtime_cost", "understaffing_cost",
     "skills_penalty", "overtime_hours", "service_level", "capacity_utilization"}

\* the cost breakdown carried by a result
BreakdownOf(res) == [k \in BreakdownFields |-> res[k]]

---------------------------------------------------------------------------
(* Properties of the Staffing Search *)

\* C1: with MIN_STAFF_PER_SHIFT <= MAX_STAFF_PER_SHIFT, the OptimalStaff that
\* optimize_shift_staffing returns lies in [MIN_STAFF_PER_SHIFT,
\* MAX_STAFF_PER_SHIFT], from the feasible pass and from the fallback pass.
C1_OptimalStaffInRange ==
    (pc = "optimized" /\ config.MIN_STAFF_PER_SHIFT <= config.MAX_STAFF_PER_SHIFT)
        => /\ Returned(result)
           /\ result.OptimalStaff \in ConfiguredRange

\* a result of the fallback pass, after two scans of a range of several
C1_Witness ==
    /\ SearchReturned
    /\ evals = 2 * Cardinality(ConfiguredRange)
    /\ Cardinality(ConfiguredRange) > 1
    /\ result.OptimalStaff = config.MAX_STAFF_PER_SHIFT

\* C2: if some staff_count of the range gives a service_level >=
\* TARGET_SERVICE_LEVEL for the record's demand, the returned service_level
\* is >= TARGET_SERVICE_LEVEL.
C2_FeasibleMeansTargetMet ==
    (pc = "optimized" /\ FeasibleSet # {})
        => /\ Returned(result)
           /\ AtLeastTarget(result.service_level)
           /\ AtLeastTarget(result.ServiceLevel)

\* a search where some staff counts are feasible, others are not, and an
\* infeasible one is the cheapest of the range
C2_Witness ==
    /\ SearchReturned
    /\ FeasibleSet # {}
    /\ \E s \in ConfiguredRange \ FeasibleSet :
          Less(CostAt(s).total_cost, result.TotalCost)

\* C3: when the feasible set is not empty the search returns the feasible
\* staff_count of minimum total_cost: no feasible staff_count costs strictly
\* less, and among the feasible ones of that cost the smallest is returned.
C3_MinimumCostFeasible ==
    (pc = "optimized" /\ FeasibleSet # {})
        => /\ Returned(result)
           /\ result.OptimalStaff \in FeasibleSet
           /\ result.TotalCost = CostAt(result.OptimalStaff).total_cost
           /\ \A s \in FeasibleSet :
                 /\ ~Less(CostAt(s).total_cost, result.TotalCost)
                 /\ CostAt(s).total_cost = result.TotalCost => result.OptimalStaff <= s

\* a search with two feasible staff counts of the same, minimum, cost
C3_Witness ==
    /\ SearchReturned
    /\ \E s \in FeasibleSet :
          /\ s # result.OptimalStaff
          /\ CostAt(s).total_cost = result.TotalCost

\* C4: when no staff_count of the (non-empty) range reaches
\* TARGET_SERVICE_LEVEL the search raises no error and returns the staff_count
\* of minimum total_cost over the whole range, the smallest one on ties.
C4_FallbackMinimumCost ==
    (pc = "optimized" /\ ConfiguredRange # {} /\ FeasibleSet = {})
        => /\ Returned(result)
           /\ result.OptimalStaff \in ConfiguredRange
           /\ result.TotalCost = CostAt(result.OptimalStaff).total_cost
           /\ \A s \in ConfiguredRange :
                 /\ ~Less(CostAt(s).total_cost, result.TotalCost)
                 /\ CostAt(s).total_cost = result.TotalCost => result.OptimalStaff <= s

\* a fallback result that is not the largest staff count of a range of several
C4_Witness ==
    /\ SearchReturned
    /\ FeasibleSet = {}
    /\ Cardinality(ConfiguredRange) > 1
    /\ result.OptimalStaff < config.MAX_STAFF_PER_SHIFT

\* C5: with a non-empty range and a positive understaffing penalty, the
\* returned service_level is below TARGET_SERVICE_LEVEL exactly when no
\* staff_count of the range is feasible, and then the returned
\* understaffing_cost is strictly positive.
C5_InfeasibilityDetectable ==
    (pc = "optimized" /\ ConfiguredRange # {} /\ config.UNDERSTAFFING_PENALTY > 0)
        => /\ Returned(result)
           /\ BelowTarget(result.service_level) <=> FeasibleSet = {}
           /\ BelowTarget(result.service_level) => IsPositive(result.understaffing_cost)

\* a result below target under the default configuration
C5_Witness ==
    /\ SearchReturned
    /\ config = DefaultConfig
    /\ BelowTarget(result.service_level)
    /\ IsPositive(result.understaffing_cost)

---------------------------------------------------------------------------
(* Properties of the Cost Model *)

\* a direct call of the Cost Model has returned, for a staff count of the range
CostedInRange == pc = "costed" /\ cost_args.staff_count \in ConfiguredRange

\* the Cost Model at another staff count, for the arguments of the last direct call
CostWith(staff_count) ==
    calculate_total_cost(config, staff_count, cost_args.forecast_volume,
                         cost_args.order_type, cost_args.weekday)

\* C6: for every staff_count of the range, volume, weekday and order type the
\* breakdown of calculate_total_cost has total_cost = regular_cost +
\* overtime_cost + understaffing_cost + skills_penalty.
C6_TotalIsSumOfComponents ==
    CostedInRange
        => LET den == MoneyDen(cost_args.order_type)
           IN  cost_metrics.total_cost =
                  Plus(Plus(Plus(cost_metrics.regular_cost, cost_metrics.overtime_cost, den),
                            cost_metrics.understaffing_cost, den),
                       cost_metrics.skills_penalty, den)

\* a breakdown whose four components are all positive
C6_Witness ==
    /\ CostedInRange
    /\ IsPositive(cost_metrics.regular_cost)
    /\ IsPositive(cost_metrics.overtime_cost)
    /\ IsPositive(cost_metrics.understaffing_cost)
    /\ IsPositive(cost_metrics.skills_penalty)

\* In exact arithmetic, for a fixed volume, date and order type the
\* service_level of calculate_total_cost is non-decreasing in staff_count over
\* the range, also from the overtime-capped to the overtime-uncapped branch.
\* The floats of the program are the matter of
\* C7_ServiceLevelMonotoneInFloats.
C7_ServiceLevelMonotone ==
    CostedInRange
        => \A s2 \in cost_args.staff_count .. config.MAX_STAFF_PER_SHIFT :
              RatioLeq(cost_metrics.service_level, CostWith(s2).service_level)

\* a staff count whose overtime is at the cap of 4 hours each and misses the
\* demand, next to one whose overtime is below the cap and meets it
C7_Witness ==
    /\ CostedInRange
    /\ cost_args.staff_count < config.MAX_STAFF_PER_SHIFT
    /\ cost_metrics.overtime_hours
          = cost_args.staff_count * 4 * MoneyDen(cost_args.order_type)
    /\ cost_metrics.service_level.num < cost_metrics.service_level.den
    /\ LET next == CostWith(cost_args.staff_count + 1)
       IN  /\ next.overtime_hours > 0
           /\ next.overtime_hours
                 < (cost_args.staff_count + 1) * 4 * MoneyDen(cost_args.order_type)
           /\ next.service_level.num = next.service_level.den

---------------------------------------------------------------------------
(* Properties of the Staffing Search, continued *)

\* the record of the last search with another point forecast
RowWith(forecast_volume) == [row EXCEPT !.ForecastVolume = forecast_volume]

\* C8: the search takes the record's UpperBound, not its ForecastVolume, as
\* the demand: the returned breakdown is that of calculate_total_cost at
\* (OptimalStaff, UpperBound, order type, date), and records that differ only
\* in ForecastVolume give the same result.
C8_UpperBoundIsTheDemand ==
    SearchReturned
        => /\ BreakdownOf(result) = CostAt(result.OptimalStaff)
           /\ result.TotalCost = result.total_cost
           /\ result.ServiceLevel = result.service_level
           /\ \A fv \in {0, row.UpperBound, 2 * row.UpperBound} :
                 optimize_shift_staffing(config, RowWith(fv)) = result

\* a record whose point forecast, taken as the demand, gives another breakdown
\* at the returned staffing level
C8_Witness ==
    /\ SearchReturned
    /\ row.ForecastVolume # row.UpperBound
    /\ calculate_total_cost(config, result.OptimalStaff, row.ForecastVolume,
                            row.OrderType, row.Date) # BreakdownOf(result)

\* C9: for a valid configuration (min <= max, positive rates) the search ends
\* with a result that carries a cost breakdown, never with an error, after at
\* most two scans of the range: at most 2 x (max - min + 1) evaluations of
\* the Cost Model.
C9_SearchTotalAndBounded ==
    (pc = "optimized" /\ ValidConfig(config))
        => /\ Returned(result)
           /\ BreakdownFields \subseteq DOMAIN result
           /\ evals <= 2 * (config.MAX_STAFF_PER_SHIFT - config.MIN_STAFF_PER_SHIFT + 1)

\* a search under the default configuration that needed both scans
C9_Witness ==
    /\ SearchReturned
    /\ config = DefaultConfig
    /\ evals = 2 * (MAX_STAFF_PER_SHIFT - MIN_STAFF_PER_SHIFT + 1)

\* C10: a configuration with inverted staff bounds or with zero or negative
\* rates is rejected when it is constructed, so that no search is started with
\* one and no search fails.
C10_InvalidConfigRejected ==
    pc = "optimized" => (ValidConfig(config) /\ ~Raised(result))


---------------------------------------------------------------------------
(* Calendar *)

\* A date is the number of its day in 2024: 1 is 2024-01-01, a Monday, the
\* first day of ISO week 1.

\* date.weekday(), Monday = 0
weekday(date) == (date - 1) % 7

\* date.isocalendar()[1]
isoweek(date) == ((date - 1) \div 7) + 1

\* a range that leaves out its end date
DateRangeExclusive(start, end) ==
    [i \in 1 .. Max(0, end - start) |-> start + i - 1]

\* pd.date_range(start, end): every date from start to end, both included
date_range(start, end) ==
    [i \in 1 .. Max(0, end - start + 1) |-> start + i - 1]

---------------------------------------------------------------------------
(* The historical data synthesizer *)

\* shifts, in the order of the loop
shifts == <<"Morning", "Evening", "Night">>

\* order_types, in the order of the loop
order_types == <<"E-commerce", "B2B", "Express">>

target_productivity(order_type) ==
    CASE order_type = "E-commerce" -> 18
      [] order_type = "B2B" -> 22
      [] order_type = "Express" -> 12

\* np.ceil(a / b) for a >= 0, b > 0
Ceil(a, b) == (a + b - 1) \div b

\* The generator of np.random is a stream of draws.  The draws of one kind
\* are a pattern repeated for ever; the k-th row takes the k-th of each kind.
Draw(pattern, k) == pattern[((k - 1) % Len(pattern)) + 1]

\* One row of the data.  The columns Productivity, TotalPicks,
\* CapacityUtilization, OvertimeHours, SeasonalFactor and Staff_* are numbers
\* computed from the same draws; none is ever missing and no other operation
\* of the model reads them.
HistoricalRow(date, shift, order_type, poisson, randint) ==
    LET order_volume == Max(0, poisson)
        optimal_staff == Max(2, Ceil(order_volume, target_productivity(order_type)))
        actual_staff == Max(2, Min(20, optimal_staff + randint))
    IN  [ Date |-> date,
          Shift |-> shift,
          OrderType |-> order_type,
          OrderVolume |-> order_volume,
          StaffScheduled |-> actual_staff,
          IsWeekend |-> weekday(date) >= 5,
          IsHolidayWeek |-> isoweek(date) \in {1, 13, 26, 47, 52} ]

\* for date in dates: for shift in shifts: for order_type in order_types:
\* rows.append(...)
generate_enhanced_historical_data(start_date, end_date, rng) ==
    LET dates == date_range(start_date, end_date)
        per_date == Len(shifts) * Len(order_types)
    IN  [ k \in 1 .. Len(dates) * per_date |->
            HistoricalRow(dates[((k - 1) \div per_date) + 1],
                          shifts[(((k - 1) \div Len(order_types)) % Len(shifts)) + 1],
                          order_types[((k - 1) % Len(order_types)) + 1],
                          Draw(rng.poisson, k),
                          Draw(rng.randint, k)) ]

\* Inputs: the last day of the ranges tried, beside the week of the scenario
MaxSynthDays == 4

SynthStarts == 1 .. 3

SynthEnds == (0 .. MaxSynthDays) \cup {7}

\* np.random.poisson draws naturals; np.random.randint(-2, 3) draws -2 .. 2
PoissonPatterns == { <<0>>, <<216, 144, 54>>, <<7, 300, 0, 45>>, <<19, 18>> }

RandintPatterns == { <<-2>>, <<2>>, <<0, 1, -1>> }

Rngs == { [poisson |-> p, randint |-> r] : p \in PoissonPatterns, r \in RandintPatterns }

SynthInit ==
    /\ NoOptimizer
    /\ NoSynthesis
    /\ NoForecaster
    /\ NoApi

\* a call of generate_enhanced_historical_data
GenerateHistoricalData ==
    /\ \E start_date \in SynthStarts, end_date \in SynthEnds, rng \in Rngs :
          /\ gen_args' = [start_date |-> start_date, end_date |-> end_date]
          /\ gen_rows' = generate_enhanced_historical_data(start_date, end_date, rng)
    /\ UNCHANGED <<ovars, fvars, avars>>

SynthNext == GenerateHistoricalData

SpecSynth == SynthInit /\ [][SynthNext]_vars

\* the rows of the generated data for one date, shift and order type
RowsOf(rows, date, shift, order_type) ==
    { k \in DOMAIN rows : /\ rows[k].Date = date
                          /\ rows[k].Shift = shift
                          /\ rows[k].OrderType = order_type }

\* C18: generate_enhanced_historical_data(start, end) returns exactly one row
\* for each date of the inclusive range, each of the 3 shifts and each of the
\* 3 order types, hence 9 rows per date (63 for 2024-01-01..2024-01-07), and
\* every row has OrderVolume >= 0, whatever the random draws are.
C18_OneRowPerSlotNonNegative ==
    gen_rows # None =>
        LET days == IF gen_args.end_date < gen_args.start_date THEN 0
                    ELSE gen_args.end_date - gen_args.start_date + 1
        IN  /\ Len(gen_rows) = 9 * days
            /\ \A date \in gen_args.start_date .. gen_args.end_date :
                 \A shift \in {"Morning", "Evening", "Night"} :
                   \A order_type \in {"E-commerce", "B2B", "Express"} :
                     Cardinality(RowsOf(gen_rows, date, shift, order_type)) = 1
            /\ \A k \in DOMAIN gen_rows : gen_rows[k].OrderVolume >= 0
            /\ (gen_args.start_date = 1 /\ gen_args.end_date = 7) => Len(gen_rows) = 63

\* the week of the scenario was generated, with a slot without any order
C18_Witness ==
    /\ gen_rows # None
    /\ gen_args = [start_date |-> 1, end_date |-> 7]
    /\ Len(gen_rows) = 63
    /\ \E k \in DOMAIN gen_rows : gen_rows[k].OrderVolume = 0
    /\ \E k \in DOMAIN gen_rows : gen_rows[k].OrderVolume > 0

---------------------------------------------------------------------------
(* The forecaster: feature preparation *)

\* A segment is a pair <<shift, order_type>>.
SegmentOf(r) == <<r.Shift, r.OrderType>>

\* The order in which groupby visits its groups: by the sorted keys, Shift
\* first ("Evening" < "Morning" < "Night"), then OrderType ("B2B" <
\* "E-commerce" < "Express").
SortedSegments ==
    << <<"Evening", "B2B">>, <<"Evening", "E-commerce">>, <<"Evening", "Express">>,
       <<"Morning", "B2B">>, <<"Morning", "E-commerce">>, <<"Morning", "Express">>,
       <<"Night", "B2B">>, <<"Night", "E-commerce">>, <<"Night", "Express">> >>

\* a missing value of a column, and a present one
NaN == [nan |-> TRUE]

Num(x) == [nan |-> FALSE, v |-> x]

\* the rows of one group, in the order of the frame
Group(df, seg) ==
    LET InSegment(r) == SegmentOf(r) = seg
    IN  SelectSeq(df, InSegment)

\* the groups of a frame, in the order groupby visits them
Groups(df) ==
    LET Present(seg) == \E k \in DOMAIN df : SegmentOf(df[k]) = seg
    IN  SelectSeq(SortedSegments, Present)

\* the position of row k of the frame inside its group
PositionInGroup(df, k) == Len(Group(SubSeq(df, 1, k), SegmentOf(df[k])))

\* groupby(['Shift', 'OrderType'])['OrderVolume'].shift(7): the volume seven
\* rows earlier in the row's own group, aligned with the frame by its index
Volume_Lag7(df, k) ==
    LET pos == PositionInGroup(df, k)
    IN  IF pos <= 7 THEN NaN
        ELSE Num(Group(df, SegmentOf(df[k]))[pos - 7].OrderVolume)

\* seven times the mean of the seven volumes ending at position pos of a group
RECURSIVE SumOfLast(_, _, _)

SumOfLast(group, pos, n) ==
    IF n = 0 THEN 0
    ELSE group[pos].OrderVolume + SumOfLast(group, pos - 1, n - 1)

\* rolling(7).mean() of one group: missing until seven rows are in the window
Rolling(group) ==
    [ pos \in 1 .. Len(group) |->
        IF pos < 7 THEN NaN ELSE Num(SumOfLast(group, pos, 7)) ]

\* groupby(...)['OrderVolume'].rolling(7).mean(): the rolling means of the
\* groups one group after the other, in the order of the groups
RECURSIVE RollingOfGroups(_, _, _)

RollingOfGroups(df, groups, i) ==
    IF i > Len(groups) THEN <<>>
    ELSE Rolling(Group(df, groups[i])) \o RollingOfGroups(df, groups, i + 1)

\* a moving average that is put back on the row it was computed for
MovingAverageOfOwnGroup(df, k) ==
    Rolling(Group(df, SegmentOf(df[k])))[PositionInGroup(df, k)]

\* df['Volume_MA7'] = (...).rolling(7).mean().values: .values drops the index
\* of the grouped result, so its k-th value goes to the k-th row of the frame
Volume_MA7(rolling_values, k) == rolling_values[k]

\* prepare_features: the frame with its lag and moving-average columns (seven
\* times the mean is kept, an integer).  The calendar and seasonal columns
\* are functions of Date and are never missing.
prepare_features(df) ==
    LET rolling_values == RollingOfGroups(df, Groups(df), 1)
    IN
    [ k \in DOMAIN df |->
        [ Date |-> df[k].Date,
          Shift |-> df[k].Shift,
          OrderType |-> df[k].OrderType,
          OrderVolume |-> df[k].OrderVolume,
          DayOfWeek |-> weekday(df[k].Date),
          Week |-> isoweek(df[k].Date),
          IsWeekend |-> weekday(df[k].Date) >= 5,
          Volume_Lag7 |-> Volume_Lag7(df, k),
          Volume_MA7 |-> Volume_MA7(rolling_values, k) ] ]

\* df_features.dropna(): the rows without a missing value
dropna(df_features) ==
    LET Complete(r) == ~r.Volume_Lag7.nan /\ ~r.Volume_MA7.nan
    IN  SelectSeq(df_features, Complete)

---------------------------------------------------------------------------
(* The forecaster: training *)

\* Predictions are carried in 1/20 of an order, uncertainties in 1/400.
PredScale == 20

UncScale == 20 * 20

\* What RandomForestRegressor.fit leaves in a model is not computed here: a
\* fitted model is one of a family of functions of the feature vector, and
\* fit may return any of them.  The family has models that predict negative,
\* zero, fractional and whole volumes.
ModelFamily ==
    { [weekday |-> -30, weekend |-> 0, lag |-> 1],
      [weekday |-> 2013, weekend |-> 19, lag |-> 1] }

\* model.predict(feature_vector)[0]
predict(model, features) ==
    (IF features.IsWeekend THEN model.weekend ELSE model.weekday)
        + model.lag * features.Volume_Lag7 * PredScale

\* a threshold that also skips a group of exactly 20 rows
TooFewOrJustEnough(group) == Len(group) <= 20

\* if len(group) < 20: continue
TooFew(group) == Len(group) < 20

\* the body of the loop over the groups of df_clean, for one group
TrainGroup(self, clean, seg, fit) ==
    IF TooFew(Group(clean, seg)) THEN self
    ELSE [ models |-> (seg :> fit[seg]) @@ self.models,
           feature_importance |->
               (seg :> [importance_of |-> fit[seg]]) @@ self.feature_importance,
           created |-> self.created \cup {seg} ]

RECURSIVE TrainLoop(_, _, _, _, _)

\* for (shift, order_type), group in df_clean.groupby(['Shift', 'OrderType'])
TrainLoop(self, clean, groups, i, fit) ==
    IF i > Len(groups) THEN self
    ELSE TrainLoop(TrainGroup(self, clean, groups[i], fit),
                   clean, groups, i + 1, fit)

\* train_models, given the frame prepare_features made of the data: the
\* forecaster's dictionaries after the call and the segments it fitted
train_models(self_models, self_feature_importance, df_features, fit) ==
    LET clean == dropna(df_features)
    IN  TrainLoop([ models |-> self_models,
                    feature_importance |-> self_feature_importance,
                    created |-> {} ],
                  clean, Groups(clean), 1, fit)

---------------------------------------------------------------------------
(* The forecaster: forecasting *)

\* int(x) of a number n / d: the fraction is dropped, towards zero
Trunc(n, d) == IF n >= 0 THEN n \div d ELSE -((-n) \div d)

\* bounds that are not floored
NotFloored(x) == x

\* max(0, x)
FloorAtZero(x) == Max(0, x)

\* an uncertainty of 10 %
UncertaintyTenPercent(prediction) == (prediction * 10 * UncScale) \div (PredScale * 100)

\* uncertainty = prediction * 0.15
uncertainty(prediction) == (prediction * 15 * UncScale) \div (PredScale * 100)

\* the feature row of a date; the lag and the moving average are 0, and the
\* seasonal features are functions of the week
features(date) ==
    [ DayOfWeek |-> weekday(date),
      Week |-> isoweek(date),
      IsWeekend |-> weekday(date) >= 5,
      Volume_Lag7 |-> 0,
      Volume_MA7 |-> 0 ]

\* the record appended for one date, shift and order type
ForecastRecord(model, date, shift, order_type) ==
    LET prediction == predict(model, features(date))
        unc == uncertainty(prediction)
        scaled == prediction * (UncScale \div PredScale)
    IN  [ Date |-> date,
          Shift |-> shift,
          OrderType |-> order_type,
          ForecastVolume |-> FloorAtZero(Trunc(prediction, PredScale)),
          LowerBound |-> FloorAtZero(Trunc(scaled - unc, UncScale)),
          UpperBound |-> FloorAtZero(Trunc(scaled + unc, UncScale)),
          Uncertainty |-> unc ]

\* a lookup that takes every segment for trained, with some model
AnyModel(mdls, seg) ==
    [ found |-> TRUE,
      model |-> IF seg \in DOMAIN mdls THEN mdls[seg]
                ELSE [weekday |-> 0, weekend |-> 0, lag |-> 1],
      models |-> mdls ]

\* a lookup that takes the model out of the dictionary
LookupAndForget(mdls, seg) ==
    IF seg \in DOMAIN mdls
    THEN [ found |-> TRUE, model |-> mdls[seg],
           models |-> [k \in DOMAIN mdls \ {seg} |-> mdls[k]] ]
    ELSE [found |-> FALSE, models |-> mdls]

\* if model_key in self.models: model = self.models[model_key]
\* (found, the model, and self.models after the two reads)
Lookup(mdls, seg) ==
    IF seg \in DOMAIN mdls THEN [found |-> TRUE, model |-> mdls[seg], models |-> mdls]
    ELSE [found |-> FALSE, models |-> mdls]

\* the body of the innermost loop; acc is the list forecasts and self.models
ForecastOne(date, shift, order_type, acc) ==
    LET hit == Lookup(acc.models, <<shift, order_type>>)
    IN  [ forecasts |->
              IF hit.found
              THEN Append(acc.forecasts,
                          ForecastRecord(hit.model, date, shift, order_type))
              ELSE acc.forecasts,
          models |-> hit.models ]

RECURSIVE ForOrderTypes(_, _, _, _, _)

\* for order_type in order_types
ForOrderTypes(date, shift, req_order_types, k, acc) ==
    IF k > Len(req_order_types) THEN acc
    ELSE ForOrderTypes(date, shift, req_order_types, k + 1,
                       ForecastOne(date, shift, req_order_types[k], acc))

RECURSIVE ForShifts(_, _, _, _, _)

\* for shift in shifts
ForShifts(date, req_shifts, req_order_types, j, acc) ==
    IF j > Len(req_shifts) THEN acc
    ELSE ForShifts(date, req_shifts, req_order_types, j + 1,
                   ForOrderTypes(date, req_shifts[j], req_order_types, 1, acc))

RECURSIVE ForDates(_, _, _, _, _)

\* for date in forecast_dates
ForDates(forecast_dates, req_shifts, req_order_types, i, acc) ==
    IF i > Len(forecast_dates) THEN acc
    ELSE ForDates(forecast_dates, req_shifts, req_order_types, i + 1,
                  ForShifts(forecast_dates[i], req_shifts, req_order_types, 1, acc))

\* forecast_demand: the rows of the returned frame, and self.models after it
forecast_demand(mdls, forecast_dates, req_shifts, req_order_types) ==
    ForDates(forecast_dates, req_shifts, req_order_types, 1,
             [forecasts |-> <<>>, models |-> mdls])

---------------------------------------------------------------------------
(* The forecaster: inputs and state machine *)

\* the draws behind the training data
TrainRng == [poisson |-> <<216, 144, 54, 7, 300, 45, 19>>, randint |-> <<0>>]

\* the synthesizer's data for the first n days of 2024
Generated(n) == generate_enhanced_historical_data(1, n, TrainRng)

\* df[df segment in segs]
Keep(df, segs) ==
    LET Kept(r) == SegmentOf(r) \in segs
    IN  SelectSeq(df, Kept)

RECURSIVE GroupsInTurn(_, _, _)

GroupsInTurn(df, groups, i) ==
    IF i > Len(groups) THEN <<>>
    ELSE Group(df, groups[i]) \o GroupsInTurn(df, groups, i + 1)

\* df.sort_values(['Shift', 'OrderType'], kind='stable')
SortBySegment(df) == GroupsInTurn(df, Groups(df), 1)

MorningEcommerce == <<"Morning", "E-commerce">>

EveningB2B == <<"Evening", "B2B">>

NightExpress == <<"Night", "Express">>

\* the segments of the training data
SegmentSets ==
    { {MorningEcommerce}, {EveningB2B, NightExpress},
      {MorningEcommerce, EveningB2B, NightExpress} }

\* the numbers of days of training data: 7 more than 19 and 20 rows, and
\* the lengths at which interleaved segments keep 19 and 20 rows
TrainingDays == {26, 27, 30, 31}

\* Training data: the synthesizer's rows of some segments, interleaved by
\* date as it makes them or sorted by segment, and a frame of 27 days of one
\* segment and 26 of another
Datasets ==
    UNION { { Keep(Generated(n), segs), SortBySegment(Keep(Generated(n), segs)) } :
            n \in TrainingDays, segs \in SegmentSets }
    \cup { Keep(Generated(27), {MorningEcommerce})
               \o Keep(Generated(26), {NightExpress}) }

\* prepare_features of each of them, computed once
PreparedFeatures == [d \in Datasets |-> prepare_features(d)]

\* Forecast requests
ForecastStart == 33

MaxForecastDay == 34

DateLists == { date_range(ForecastStart, e) : e \in (ForecastStart - 1) .. MaxForecastDay }

ShiftLists == { <<>>, <<"Morning", "Evening">>, <<"Night", "Morning">> }

OrderTypeLists == { <<"E-commerce">>, <<"E-commerce", "B2B">>, <<"Express", "B2B">> }

ForecastRequests ==
    { [forecast_dates |-> d, shifts |-> sh, order_types |-> ot] :
      d \in DateLists, sh \in ShiftLists, ot \in OrderTypeLists }

\* the set of the elements of a sequence
Range(seq) == { seq[i] : i \in DOMAIN seq }

ForecasterInit ==
    /\ NoOptimizer
    /\ NoSynthesis
    /\ NoForecaster
    /\ NoApi

\* AdvancedForecaster.__init__
AdvancedForecasterInit ==
    /\ fpc = "new"
    /\ fpc' = "idle"
    /\ models' = <<>>
    /\ feature_importance' = <<>>
    /\ UNCHANGED <<historical_data, df_clean, created, forecast_args, forecasts,
                   reference, train, reader>>
    /\ UNCHANGED <<ovars, svars, avars>>

\* a call of train_models
TrainModels ==
    /\ fpc = "idle"
    /\ \E d \in Datasets :
          LET df_features == PreparedFeatures[d]
              clean == dropna(df_features)
          IN  \E fit \in [Range(Groups(clean)) -> ModelFamily] :
                 LET self == train_models(models, feature_importance, df_features, fit)
                 IN  /\ models' = self.models
                     /\ feature_importance' = self.feature_importance
                     /\ created' = self.created
                     /\ historical_data' = d
                     /\ df_clean' = clean
    /\ fpc' = "trained"
    /\ reference' = None
    /\ UNCHANGED <<forecast_args, forecasts, train, reader>>
    /\ UNCHANGED <<ovars, svars, avars>>

\* a call of forecast_demand
ForecastDemand ==
    /\ fpc = "idle"
    /\ \E req \in ForecastRequests :
          LET res == forecast_demand(models, req.forecast_dates, req.shifts,
                                     req.order_types)
          IN  /\ forecast_args' = req
              /\ forecasts' = res.forecasts
              /\ models' = res.models
    /\ fpc' = "forecasted"
    /\ UNCHANGED <<feature_importance, historical_data, df_clean, created,
                   reference, train, reader>>
    /\ UNCHANGED <<ovars, svars, avars>>

\* the caller has taken the value of a call; of a forecast it may keep the
\* arguments and the records, to compare a later forecast with them
ForecasterConsume ==
    /\ fpc \in {"trained", "forecasted"}
    /\ fpc' = "idle"
    /\ \E keep \in BOOLEAN :
          reference' = IF keep /\ fpc = "forecasted"
                       THEN [args |-> forecast_args, forecasts |-> forecasts]
                       ELSE reference
    /\ historical_data' = None
    /\ df_clean' = None
    /\ created' = None
    /\ forecast_args' = None
    /\ forecasts' = None
    /\ UNCHANGED <<models, feature_importance, train, reader>>
    /\ UNCHANGED <<ovars, svars, avars>>

ForecasterNext ==
    \/ AdvancedForecasterInit
    \/ TrainModels
    \/ ForecastDemand
    \/ ForecasterConsume

SpecForecaster == ForecasterInit /\ [][ForecasterNext]_vars

---------------------------------------------------------------------------
(* Claims about the forecaster *)

AllSegments == Range(SortedSegments)

\* train_models has returned; forecast_demand has returned
Trained == fpc = "trained"

Forecasted == fpc = "forecasted"

\* the rows of a segment that the last training kept
UsableRows(seg) == Len(Group(df_clean, seg))

\* the segments with at least 20 usable rows in the last training's data
Qualifying == { seg \in AllSegments : UsableRows(seg) >= 20 }

\* C11: every record of forecast_demand has
\* 0 <= LowerBound <= ForecastVolume <= UpperBound, whatever the model
\* predicted (a fractional, a zero or a negative volume included).
C11_ForecastBoundsOrdered ==
    Forecasted =>
        \A k \in DOMAIN forecasts :
            /\ 0 <= forecasts[k].LowerBound
            /\ forecasts[k].LowerBound <= forecasts[k].ForecastVolume
            /\ forecasts[k].ForecastVolume <= forecasts[k].UpperBound

\* a forecast with a record of three different values and a record of a
\* negative prediction
C11_Witness ==
    /\ Forecasted
    /\ \E k \in DOMAIN forecasts :
          /\ 0 < forecasts[k].LowerBound
          /\ forecasts[k].LowerBound < forecasts[k].ForecastVolume
          /\ forecasts[k].ForecastVolume < forecasts[k].UpperBound
    /\ \E k \in DOMAIN forecasts :
          /\ forecasts[k].Uncertainty < 0
          /\ forecasts[k].UpperBound = 0

\* C12: in every record Uncertainty is 0.15 x ForecastVolume (the integer of
\* the record), LowerBound is ForecastVolume - Uncertainty floored at 0 and
\* UpperBound is ForecastVolume + Uncertainty.
C12_BoundsFromEmittedVolume ==
    Forecasted =>
        \A k \in DOMAIN forecasts :
            LET rec == forecasts[k]
                volume == rec.ForecastVolume * UncScale
            IN  /\ rec.Uncertainty * 100 = 15 * volume
                /\ rec.LowerBound * UncScale = Max(0, volume - rec.Uncertainty)
                /\ rec.UpperBound * UncScale = volume + rec.Uncertainty

\* the prediction a record was made from: its Uncertainty / 0.15
RawPrediction(rec) == (rec.Uncertainty * 100) \div 15

\* x / UncScale, without its fraction, is the integer i
IsIntegerPartOf(i, x) == i * UncScale <= x /\ x < (i + 1) * UncScale

\* C12, amended: Uncertainty is 0.15 x the prediction of the model, before it
\* is made an integer, and ForecastVolume, LowerBound and UpperBound are the
\* prediction, the prediction - Uncertainty and the prediction + Uncertainty,
\* each without its fraction and floored at 0.
C12_BoundsFromRawPrediction ==
    Forecasted =>
        \A k \in DOMAIN forecasts :
            LET rec == forecasts[k]
                prediction == RawPrediction(rec)
            IN  /\ prediction * 15 = rec.Uncertainty * 100
                /\ IF prediction >= 0
                   THEN /\ IsIntegerPartOf(rec.ForecastVolume, prediction)
                        /\ IsIntegerPartOf(rec.LowerBound, prediction - rec.Uncertainty)
                        /\ IsIntegerPartOf(rec.UpperBound, prediction + rec.Uncertainty)
                   ELSE /\ rec.ForecastVolume = 0
                        /\ rec.LowerBound = 0
                        /\ rec.UpperBound = 0

\* a record of a prediction of 100.65: volume 100, uncertainty 15.0975
C12_Witness ==
    /\ Forecasted
    /\ \E k \in DOMAIN forecasts :
          /\ forecasts[k].ForecastVolume = 100
          /\ forecasts[k].Uncertainty * 10000 = 150975 * UncScale
          /\ forecasts[k].LowerBound = 85
          /\ forecasts[k].UpperBound = 115

\* C13: train_models fits a model for a segment exactly if the segment has at
\* least 20 usable rows after feature preparation (20 rows: a model; 19: none),
\* and it returns without an error whatever the segments have.
C13_ModelIffTwentyUsableRows ==
    Trained =>
        /\ created = Qualifying
        /\ created \subseteq DOMAIN models
        /\ created \subseteq DOMAIN feature_importance

\* a training with a segment of exactly 20 usable rows, fitted, and one of
\* exactly 19, left without a model
C13_Witness ==
    /\ Trained
    /\ \E seg \in AllSegments : UsableRows(seg) = 20 /\ seg \in created
    /\ \E seg \in AllSegments : UsableRows(seg) = 19 /\ seg \notin DOMAIN models

\* the requested combinations, dates first, then shifts, then order types
Combinations(req) ==
    LET ns == Len(req.shifts)
        no == Len(req.order_types)
    IN  [ i \in 1 .. Len(req.forecast_dates) * ns * no |->
            [ Date |-> req.forecast_dates[((i - 1) \div (ns * no)) + 1],
              Shift |-> req.shifts[(((i - 1) \div no) % ns) + 1],
              OrderType |-> req.order_types[((i - 1) % no) + 1] ] ]

\* those of them whose segment has a model
CoveredCombinations(req) ==
    LET Covered(c) == SegmentOf(c) \in DOMAIN models
    IN  SelectSeq(Combinations(req), Covered)

\* C14: forecast_demand returns one record for each requested (date, shift,
\* order type) whose segment has a model, in the order dates, shifts, order
\* types, and nothing for the others: all of them when every requested
\* segment is trained, none on an untrained forecaster.
C14_OneRecordPerTrainedCombination ==
    Forecasted =>
        LET all == Combinations(forecast_args)
            covered == CoveredCombinations(forecast_args)
        IN  /\ Len(forecasts) = Len(covered)
            /\ \A k \in DOMAIN forecasts :
                 /\ forecasts[k].Date = covered[k].Date
                 /\ forecasts[k].Shift = covered[k].Shift
                 /\ forecasts[k].OrderType = covered[k].OrderType
            /\ (\A i \in DOMAIN all : SegmentOf(all[i]) \in DOMAIN models)
                 => Len(forecasts) = Len(forecast_args.forecast_dates)
                                       * Len(forecast_args.shifts)
                                       * Len(forecast_args.order_types)
            /\ DOMAIN models = {} => forecasts = <<>>

\* a forecast over two dates of which some combinations are covered and some
\* are not
C14_Witness ==
    /\ Forecasted
    /\ Len(forecast_args.forecast_dates) = 2
    /\ Len(forecasts) >= 2
    /\ Len(forecasts) < Len(Combinations(forecast_args))

C16_RetrainingReplacesModelSet ==
    Trained => DOMAIN models = Qualifying

\* the dates of the frame do not go back: the segments are interleaved by date
InterleavedByDate(df) ==
    \A k \in 1 .. (Len(df) - 1) : df[k].Date <= df[k + 1].Date

\* the row of the training data a row of df_clean was made from
SourceRow(r) ==
    CHOOSE j \in DOMAIN historical_data :
        /\ historical_data[j].Date = r.Date
        /\ SegmentOf(historical_data[j]) = SegmentOf(r)

\* C20: train_models leaves out exactly the first 7 periods of each segment:
\* of data interleaved by date a segment of n observations keeps n - 7 rows,
\* and the moving average of each row kept is that of the row's own segment.
C20_FirstSevenPeriodsExcluded ==
    (Trained /\ InterleavedByDate(historical_data)) =>
        /\ \A seg \in Range(Groups(historical_data)) :
              UsableRows(seg) = Len(Group(historical_data, seg)) - 7
        /\ \A k \in DOMAIN df_clean :
              df_clean[k].Volume_MA7
                  = MovingAverageOfOwnGroup(historical_data, SourceRow(df_clean[k]))

---------------------------------------------------------------------------
(* train_models and forecast_demand called concurrently *)

\* One thread calls train_models and another forecast_demand, on the same
\* forecaster.  Each call advances by one turn of its loop at a time: the
\* loop of train_models over the groups, each turn storing one model, and
\* the innermost loop of forecast_demand, each turn looking one segment up.

ConcurrentDatasets ==
    { SortBySegment(Keep(Generated(27), {MorningEcommerce, EveningB2B, NightExpress})),
      Keep(Generated(30), {EveningB2B, NightExpress}),
      Keep(Generated(26), {MorningEcommerce}) }

ConcurrentRequests ==
    { [forecast_dates |-> date_range(ForecastStart, ForecastStart),
       shifts |-> sh, order_types |-> ot] :
      sh \in {<<"Morning", "Evening">>, <<"Night", "Morning">>},
      ot \in {<<"E-commerce", "B2B">>, <<"Express", "B2B">>} }

\* after AdvancedForecaster.__init__, no call in progress
ConcurrentInit ==
    /\ NoOptimizer
    /\ NoSynthesis
    /\ NoApi
    /\ models = <<>>
    /\ feature_importance = <<>>
    /\ fpc = "idle"
    /\ historical_data = None
    /\ df_clean = None
    /\ created = None
    /\ forecast_args = None
    /\ forecasts = None
    /\ reference = None
    /\ train = None
    /\ reader = None

\* train_models up to its loop: the features and df_clean
TrainBegin ==
    /\ train = None
    /\ \E d \in ConcurrentDatasets :
          /\ historical_data' = d
          /\ df_clean' = dropna(PreparedFeatures[d])
    /\ created' = {}
    /\ train' = [phase |-> "loop", i |-> 1, before |-> models]
    /\ UNCHANGED <<models, feature_importance, fpc, forecast_args, forecasts,
                   reference, reader>>
    /\ UNCHANGED <<ovars, svars, avars>>

\* one turn of the loop over the groups
TrainStep ==
    /\ train # None
    /\ train.phase = "loop"
    /\ train.i <= Len(Groups(df_clean))
    /\ \E model \in ModelFamily :
          LET seg == Groups(df_clean)[train.i]
              self == TrainGroup([ models |-> models,
                                   feature_importance |-> feature_importance,
                                   created |-> created ],
                                 df_clean, seg, seg :> model)
          IN  /\ models' = self.models
              /\ feature_importance' = self.feature_importance
              /\ created' = self.created
    /\ train' = [train EXCEPT !.i = @ + 1]
    /\ UNCHANGED <<fpc, historical_data, df_clean, forecast_args, forecasts,
                   reference, reader>>
    /\ UNCHANGED <<ovars, svars, avars>>

\* the loop is over: train_models returns
TrainEnd ==
    /\ train # None
    /\ train.phase = "loop"
    /\ train.i > Len(Groups(df_clean))
    /\ train' = [train EXCEPT !.phase = "done"]
    /\ UNCHANGED <<models, feature_importance, fpc, historical_data, df_clean,
                   created, forecast_args, forecasts, reference, reader>>
    /\ UNCHANGED <<ovars, svars, avars>>

\* forecast_demand up to its loops: forecasts = []
ReaderBegin ==
    /\ reader = None
    /\ \E req \in ConcurrentRequests : forecast_args' = req
    /\ forecasts' = <<>>
    /\ reader' = [phase |-> "loop", pos |-> 1]
    /\ UNCHANGED <<models, feature_importance, fpc, historical_data, df_clean,
                   created, reference, train>>
    /\ UNCHANGED <<ovars, svars, avars>>

\* one turn of the innermost loop, on self.models as it is now
ReaderStep ==
    /\ reader # None
    /\ reader.phase = "loop"
    /\ reader.pos <= Len(Combinations(forecast_args))
    /\ LET c == Combinations(forecast_args)[reader.pos]
           res == ForecastOne(c.Date, c.Shift, c.OrderType,
                              [forecasts |-> forecasts, models |-> models])
       IN  /\ forecasts' = res.forecasts
           /\ models' = res.models
    /\ reader' = [reader EXCEPT !.pos = @ + 1]
    /\ UNCHANGED <<feature_importance, fpc, historical_data, df_clean, created,
                   forecast_args, reference, train>>
    /\ UNCHANGED <<ovars, svars, avars>>

\* the loops are over: forecast_demand returns
ReaderEnd ==
    /\ reader # None
    /\ reader.phase = "loop"
    /\ reader.pos > Len(Combinations(forecast_args))
    /\ reader' = [reader EXCEPT !.phase = "done"]
    /\ UNCHANGED <<models, feature_importance, fpc, historical_data, df_clean,
                   created, forecast_args, forecasts, reference, train>>
    /\ UNCHANGED <<ovars, svars, avars>>

\* both callers have taken what their calls returned
BothReturned ==
    /\ train # None
    /\ train.phase = "done"
    /\ reader # None
    /\ reader.phase = "done"
    /\ train' = None
    /\ reader' = None
    /\ historical_data' = None
    /\ df_clean' = None
    /\ created' = None
    /\ forecast_args' = None
    /\ forecasts' = None
    /\ UNCHANGED <<models, feature_importance, fpc, reference>>
    /\ UNCHANGED <<ovars, svars, avars>>

ConcurrentNext ==
    \/ TrainBegin
    \/ TrainStep
    \/ TrainEnd
    \/ ReaderBegin
    \/ ReaderStep
    \/ ReaderEnd
    \/ BothReturned

SpecConcurrent == ConcurrentInit /\ [][ConcurrentNext]_vars

\* C17: a forecast_demand call that runs while train_models runs sees the
\* whole model set of before that training or the whole model set of after
\* it: its records are those of one of the two sets, never of a mixture.
C17_ReaderSeesWholeModelSet ==
    (train # None /\ train.phase = "done" /\ reader # None /\ reader.phase = "done")
        => \/ forecasts = forecast_demand(train.before, forecast_args.forecast_dates,
                                          forecast_args.shifts,
                                          forecast_args.order_types).forecasts
           \/ forecasts = forecast_demand(models, forecast_args.forecast_dates,
                                          forecast_args.shifts,
                                          forecast_args.order_types).forecasts

---------------------------------------------------------------------------
(* The HTTP layer (src/api/main.py) *)

\* The values of forecast_data are what the request carries.  A Date that
\* came as JSON is a string; a Date put there by a caller inside the process
\* can be a datetime.  A string has no weekday(), and json.dumps, which the
\* audit log applies to the request, takes strings and numbers but no
\* datetime.
DateTypes == {"str", "datetime"}

\* the rate written into baseline_cost, in cents
BASELINE_RATE == 1850

\* the order type of the records tried: their amounts share one denominator
ApiOrderType == "E-commerce"

\* a demand the range can serve and one it cannot
ApiDemands == {150 * VolScale, 6 * CoarseStep}

ApiRows ==
    { [ Date |-> [type |-> t, weekday |-> 3], Shift |-> "Morning",
        OrderType |-> ApiOrderType,
        ForecastVolume |-> (ub * 100) \div 115, UpperBound |-> ub ] :
      t \in DateTypes, ub \in ApiDemands }

\* the longest forecast_data tried
MaxApiRecords == 2

ApiRequests == UNION { [1 .. n -> ApiRows] : n \in 0 .. MaxApiRecords }

\* the field constraints of a request: absent, or limits a client asks for
ApiConstraints ==
    {None, [max_staff_per_shift |-> 1, target_service_level |-> 100]}

\* a - b for amounts a >= b
Minus(a, b, den) ==
    IF a.f >= b.f THEN Money(a.c - b.c, a.f - b.f)
    ELSE Money(a.c - b.c - 1, a.f + den - b.f)

\* a search under the limits of the request
ConstrainedConfig(optimizer, constraints) ==
    IF constraints = None THEN optimizer
    ELSE [optimizer EXCEPT !.MAX_STAFF_PER_SHIFT = constraints.max_staff_per_shift,
                           !.TARGET_SERVICE_LEVEL = constraints.target_service_level]

\* the configuration of a search: that of the global optimizer, whatever the
\* request says
SearchConfig(optimizer, constraints) == optimizer

\* optimizer.optimize_shift_staffing(row): date.weekday() needs a datetime
OptimizeRow(optimizer, r) ==
    IF r.Date.type = "datetime"
    THEN optimize_shift_staffing(optimizer, [r EXCEPT !.Date = r.Date.weekday])
    ELSE [error |-> "AttributeError"]

\* F of the value of v, with v computed once, as a statement computes the
\* value it assigns to a name
Once(v, F(_)) == CHOOSE y \in { F(x) : x \in {v} } : TRUE

\* the body of the loop over the rows: the first exception ends the loop
OptimizeNext(optimizer, r, acc) ==
    IF acc.error # "" THEN acc
    ELSE Once(OptimizeRow(optimizer, r), LAMBDA res :
             IF Raised(res) THEN [acc EXCEPT !.error = res.error]
             ELSE [ optimization_results |-> Append(acc.optimization_results, r @@ res),
                    total_cost |-> Plus(acc.total_cost, res.TotalCost,
                                        MoneyDen(ApiOrderType)),
                    error |-> "" ])

RECURSIVE OptimizeRows(_, _, _, _)

\* for _, row in forecast_df.iterrows()
OptimizeRows(optimizer, rows, i, acc) ==
    IF i > Len(rows) THEN acc
    ELSE Once(OptimizeNext(optimizer, rows[i], acc), LAMBDA next_acc :
             OptimizeRows(optimizer, rows, i + 1, next_acc))

\* optimized_df['ServiceLevel'].mean(): the levels whose mean it is
MeanOf(results) == [mean_of |-> [k \in DOMAIN results |-> results[k].ServiceLevel]]

\* len(optimization_results) * 10 * 8 * 18.50
baseline_cost(results) == Cents(Len(results) * 10 * 8 * BASELINE_RATE)

\* max(0, baseline_cost - total_cost)
weekly_savings(baseline, total) ==
    IF LessEq(baseline, total) THEN Zero
    ELSE Minus(baseline, total, MoneyDen(ApiOrderType))

\* json.dumps of the request, in audit_logger.log_optimization_run
Serializable(rows) == \A k \in DOMAIN rows : rows[k].Date.type = "str"

\* what the except clause makes of any exception
InternalServerError(detail) == [status |-> 500, detail |-> detail]

\* the handler's local values when it reaches the audit log: the four values
\* of the response, or the exception raised before
Computed(optimizer, rows, constraints) ==
    Once(OptimizeRows(SearchConfig(optimizer, constraints), rows, 1,
                      [ optimization_results |-> <<>>,
                        total_cost |-> Zero, error |-> "" ]), LAMBDA acc :
        IF acc.error # "" THEN [error |-> acc.error]
        ELSE IF acc.optimization_results = <<>> THEN [error |-> "KeyError"]
        ELSE [ total_cost |-> acc.total_cost,
               weekly_savings |->
                   weekly_savings(baseline_cost(acc.optimization_results),
                                  acc.total_cost),
               service_level |-> MeanOf(acc.optimization_results),
               optimization_results |-> acc.optimization_results ])

\* optimize_staffing: the response
optimize_staffing(optimizer, rows, constraints) ==
    IF optimizer = None THEN InternalServerError("HTTPException 503")
    ELSE Once(Computed(optimizer, rows, constraints), LAMBDA values :
             IF Raised(values) THEN InternalServerError(values.error)
             ELSE IF ~Serializable(rows) THEN InternalServerError("TypeError")
             ELSE [status |-> 200] @@ values)

\* start_date and end_date are strings: a date of the calendar above, or a
\* string pd.to_datetime cannot parse
ApiDates ==
    { [valid |-> TRUE, day |-> ForecastStart],
      [valid |-> TRUE, day |-> ForecastStart + 1],
      [valid |-> FALSE, day |-> 0] }

\* ForecastRequest; the first list of each field is its default
ApiForecastRequests ==
    { [start_date |-> s, end_date |-> e, shifts |-> sh, order_types |-> ot] :
      s \in ApiDates, e \in ApiDates,
      sh \in {shifts, <<>>}, ot \in {order_types, <<"Express", "B2B">>} }

\* AdvancedForecaster(): no models
NewForecaster == [models |-> <<>>, feature_importance |-> <<>>]

\* generate_forecast: the response, the global forecaster after the call, and
\* whether initialize_models was added to the request's background tasks
generate_forecast(forecaster, req) ==
    IF forecaster = None
    THEN [ response |-> InternalServerError("HTTPException 503"),
           forecaster |-> forecaster, scheduled |-> TRUE ]
    ELSE IF ~req.start_date.valid \/ ~req.end_date.valid
    THEN [ response |-> InternalServerError("ValueError"),
           forecaster |-> forecaster, scheduled |-> FALSE ]
    ELSE LET forecast_dates == date_range(req.start_date.day, req.end_date.day)
             res == forecast_demand(forecaster.models, forecast_dates,
                                    req.shifts, req.order_types)
         IN  [ response |-> [ status |-> 200, forecasts |-> res.forecasts,
                              model_version |-> "1.0.0" ],
               forecaster |-> [forecaster EXCEPT !.models = res.models],
               scheduled |-> FALSE ]

\* readiness_check: the response
readiness_check(forecaster, optimizer) ==
    IF forecaster = None \/ optimizer = None
    THEN [status |-> 503, detail |-> "Models not yet loaded"]
    ELSE [status |-> 200, detail |-> "ready"]

\* the forecaster run_enhanced_staffing_system makes and trains is shared
\* with the requests
ForecasterShared(global_forecaster, local_forecaster) == local_forecaster

\* the global forecaster after execute_full_optimization, whose
\* run_enhanced_staffing_system trains a forecaster of its own
ForecasterAfterFullOptimization(global_forecaster, local_forecaster) ==
    global_forecaster

\* the most initialize_models tasks waiting at a time
MaxPendingTasks == 2

\* a coroutine is run from one await to the next without another one being
\* run: as if the event loop switched at any statement
LoopFreeAnywhere == TRUE

\* no coroutine is between two of its statements; initialize_models, the
\* handlers and execute_full_optimization have no await in their bodies
LoopFree == api_init = "idle"

\* no response is being sent
NoPending ==
    /\ api_response = None
    /\ api_forecast = None
    /\ api_ready = None

ApiInit ==
    /\ NoOptimizer
    /\ NoSynthesis
    /\ NoForecaster
    /\ NoApi

\* startup_event: asyncio.create_task(initialize_models()).  An application
\* mounted without its lifespan events serves requests without it.
StartupEvent ==
    /\ ~api_started
    /\ NoPending
    /\ api_started' = TRUE
    /\ api_tasks' = api_tasks + 1
    /\ UNCHANGED <<api_optimizer, api_request, api_response, api_constraints,
                   api_forecaster, api_init, api_full, api_forecast, api_ready,
                   api_was_ready>>
    /\ UNCHANGED <<ovars, svars, fvars>>

\* initialize_models, up to forecaster = AdvancedForecaster()
InitializeModelsForecaster ==
    /\ api_init = "idle"
    /\ NoPending
    /\ api_tasks > 0
    /\ api_tasks' = api_tasks - 1
    /\ api_forecaster' = NewForecaster
    /\ api_init' = "forecaster_set"
    /\ UNCHANGED <<api_optimizer, api_request, api_response, api_constraints,
                   api_started, api_full, api_forecast, api_ready, api_was_ready>>
    /\ UNCHANGED <<ovars, svars, fvars>>

\* initialize_models, from config = StaffingConfig() on
InitializeModelsOptimizer ==
    /\ api_init = "forecaster_set"
    /\ NoPending
    /\ api_optimizer' = DefaultConfig
    /\ api_init' = "idle"
    /\ UNCHANGED <<api_request, api_response, api_constraints, api_forecaster,
                   api_tasks, api_started, api_full, api_forecast, api_ready,
                   api_was_ready>>
    /\ UNCHANGED <<ovars, svars, fvars>>

InitializeModels ==
    \/ InitializeModelsForecaster
    \/ InitializeModelsOptimizer

\* a request GET /health/ready and the response the handler makes
ReadinessCheck ==
    /\ LoopFree
    /\ NoPending
    /\ api_ready' = readiness_check(api_forecaster, api_optimizer)
    /\ api_was_ready' = (api_was_ready \/ api_ready'.status = 200)
    /\ UNCHANGED <<api_optimizer, api_request, api_response, api_constraints,
                   api_forecaster, api_init, api_tasks, api_started, api_full,
                   api_forecast>>
    /\ UNCHANGED <<ovars, svars, fvars>>

\* a request POST /api/v1/forecast and the response the handler makes.  The
\* framework runs the background tasks of a response the handler returned;
\* whether it runs those of a request that ended in an exception is its
\* matter, and both outcomes are kept.
GenerateForecast ==
    /\ LoopFree
    /\ NoPending
    /\ \E req \in ApiForecastRequests, runs \in BOOLEAN :
          LET out == generate_forecast(api_forecaster, req)
          IN  /\ api_forecast' = [ request |-> req, response |-> out.response,
                                   scheduled |-> out.scheduled ]
              /\ api_forecaster' = out.forecaster
              /\ api_tasks' = IF out.scheduled /\ runs /\ api_tasks < MaxPendingTasks
                              THEN api_tasks + 1
                              ELSE api_tasks
    /\ UNCHANGED <<api_optimizer, api_request, api_response, api_constraints,
                   api_init, api_started, api_full, api_ready, api_was_ready>>
    /\ UNCHANGED <<ovars, svars, fvars>>

\* a request POST /api/v1/optimize and the response the handler makes
OptimizeStaffing ==
    /\ LoopFree
    /\ NoPending
    /\ \E rows \in ApiRequests, constraints \in ApiConstraints :
          /\ api_request' = rows
          /\ api_constraints' = constraints
          /\ api_response' = optimize_staffing(api_optimizer, rows, constraints)
    /\ UNCHANGED <<api_optimizer, api_forecaster, api_init, api_tasks, api_started,
                   api_full, api_forecast, api_ready, api_was_ready>>
    /\ UNCHANGED <<ovars, svars, fvars>>

\* a request POST /api/v1/run-full-optimization: execute_full_optimization
\* is added to the background tasks and the handler returns
RunFullOptimization ==
    /\ LoopFree
    /\ NoPending
    /\ api_full' = "scheduled"
    /\ UNCHANGED <<api_optimizer, api_request, api_response, api_constraints,
                   api_forecaster, api_init, api_tasks, api_started, api_forecast,
                   api_ready, api_was_ready>>
    /\ UNCHANGED <<ovars, svars, fvars>>

\* execute_full_optimization: run_enhanced_staffing_system trains a
\* forecaster it has made for itself
ExecuteFullOptimization ==
    /\ LoopFree
    /\ NoPending
    /\ api_full = "scheduled"
    /\ api_full' = "done"
    /\ \E model \in ModelFamily :
          LET local_forecaster ==
                  [ models |-> [seg \in AllSegments |-> model],
                    feature_importance |-> [seg \in AllSegments |-> <<>>] ]
          IN  api_forecaster' =
                  ForecasterAfterFullOptimization(api_forecaster, local_forecaster)
    /\ UNCHANGED <<api_optimizer, api_request, api_response, api_constraints,
                   api_init, api_tasks, api_started, api_forecast, api_ready,
                   api_was_ready>>
    /\ UNCHANGED <<ovars, svars, fvars>>

\* the response is sent: the handler has returned or raised
SendResponse ==
    /\ ~NoPending
    /\ api_request' = None
    /\ api_constraints' = None
    /\ api_response' = None
    /\ api_forecast' = None
    /\ api_ready' = None
    /\ UNCHANGED <<api_optimizer, api_forecaster, api_init, api_tasks, api_started,
                   api_full, api_was_ready>>
    /\ UNCHANGED <<ovars, svars, fvars>>

ApiNext ==
    \/ StartupEvent
    \/ InitializeModels
    \/ ReadinessCheck
    \/ GenerateForecast
    \/ OptimizeStaffing
    \/ RunFullOptimization
    \/ ExecuteFullOptimization
    \/ SendResponse

SpecApi == ApiInit /\ [][ApiNext]_vars

RECURSIVE SumOfTotalCost(_, _)

\* the sum of the TotalCost of the first n results
SumOfTotalCost(results, n) ==
    IF n = 0 THEN Zero
    ELSE Plus(SumOfTotalCost(results, n - 1), results[n].TotalCost,
              MoneyDen(ApiOrderType))

\* C19: the response to an optimization request of n records has total_cost =
\* the sum of the n TotalCost, service_level = the mean of the n ServiceLevel
\* and weekly_savings = max(0, n x 10 x 8 x regular_rate - total_cost), which
\* is never negative.
C19_ResponseAggregates ==
    (api_response # None /\ api_optimizer # None /\ Len(api_request) >= 1) =>
        LET n == Len(api_request)
            results == api_response.optimization_results
            baseline == Cents(n * 10 * 8 * api_optimizer.REGULAR_RATE)
        IN  /\ api_response.status = 200
            /\ Len(results) = n
            /\ api_response.total_cost = SumOfTotalCost(results, n)
            /\ api_response.service_level
                 = [mean_of |-> [k \in 1 .. n |-> results[k].ServiceLevel]]
            /\ IsNonNegative(api_response.weekly_savings)
            /\ \/ /\ LessEq(baseline, api_response.total_cost)
                  /\ api_response.weekly_savings = Zero
               \/ /\ Less(api_response.total_cost, baseline)
                  /\ Plus(api_response.weekly_savings, api_response.total_cost,
                          MoneyDen(ApiOrderType)) = baseline

---------------------------------------------------------------------------
(* Properties of the HTTP layer *)

\* C23: a request to /api/v1/forecast while the forecaster is not
\* initialised, or to /api/v1/optimize while the optimizer is not
\* initialised, is answered with status 503, not 500; the forecast request
\* also schedules initialize_models.
C23_UninitialisedAnswers503 ==
    /\ (api_forecast # None /\ api_forecaster = None)
          => /\ api_forecast.response.status = 503
             /\ api_forecast.scheduled
    /\ (api_response # None /\ api_optimizer = None)
          => api_response.status = 503

\* C24: the global forecaster is only ever created empty and nothing trains
\* it, so a successful /api/v1/forecast response has an empty list of
\* forecasts, whatever the date range, shifts and order types.
C24_ApiForecasterNeverTrained ==
    /\ api_forecaster # None => api_forecaster.models = <<>>
    /\ (api_forecast # None /\ api_forecast.response.status = 200)
          => api_forecast.response.forecasts = <<>>

\* a successful forecast of two days, all shifts and order types, after a
\* full optimization has trained its forecaster
C24_Witness ==
    /\ api_forecast # None
    /\ api_forecast.response.status = 200
    /\ api_full = "done"
    /\ api_forecast.request.start_date.day < api_forecast.request.end_date.day
    /\ api_forecast.request.shifts = shifts
    /\ api_forecast.request.order_types = order_types

\* C25: the readiness check succeeds exactly when both globals are set;
\* nothing resets either, so after one success every readiness check
\* succeeds; and no request is handled in a state where only one is set.
C25_ReadinessIffBothSet ==
    /\ api_ready # None
          => (api_ready.status = 200
                 <=> (api_forecaster # None /\ api_optimizer # None))
    /\ api_was_ready => (api_forecaster # None /\ api_optimizer # None)
    /\ (api_was_ready /\ api_ready # None) => api_ready.status = 200
    /\ ~NoPending => (api_forecaster = None <=> api_optimizer = None)

\* a readiness check that succeeds while another initialize_models is still
\* to run
C25_Witness ==
    /\ api_ready # None
    /\ api_ready.status = 200
    /\ api_tasks > 0

\* C26: the constraints of an optimization request have no influence: with
\* the same forecast_data, any other constraints give the same response and
\* the same optimization_results, total_cost, service_level and
\* weekly_savings.
C26_ConstraintsHaveNoInfluence ==
    (api_response # None /\ api_optimizer # None)
        => LET values == Computed(api_optimizer, api_request, api_constraints)
           IN  \A constraints \in ApiConstraints \ {api_constraints} :
                  /\ Computed(api_optimizer, api_request, constraints) = values
                  /\ optimize_staffing(api_optimizer, api_request, constraints)
                        = api_response

\* a request with constraints whose records were all optimized
C26_Witness ==
    /\ api_response # None
    /\ api_optimizer # None
    /\ api_constraints # None
    /\ Len(api_request) = MaxApiRecords
    /\ ~Raised(Computed(api_optimizer, api_request, api_constraints))

---------------------------------------------------------------------------
(* Properties of the Cost Model and of the Staffing Search, continued *)

\* C27: under the default StaffingConfig calculate_skills_penalty returns 0
\* for every staff_count in [2, 25], in a direct call and in the breakdown a
\* search returns; with any configuration the penalty is positive only if
\* some required fraction exceeds the 60 % availability.
C27_SkillsPenaltyZeroByDefault ==
    /\ (pc = "costed" /\ config = DefaultConfig
            /\ cost_args.staff_count \in MIN_STAFF_PER_SHIFT .. MAX_STAFF_PER_SHIFT)
          => cost_metrics.skills_penalty = Zero
    /\ (pc = "optimized" /\ config = DefaultConfig)
          => /\ Returned(result)
             /\ result.skills_penalty = Zero
    /\ (pc = "costed" /\ IsPositive(cost_metrics.skills_penalty))
          => \E i \in DOMAIN config.SKILL_REQUIREMENTS :
                config.SKILL_REQUIREMENTS[i] > 60

\* the default configuration with 25 staff: 15 experienced are required and
\* 15 are taken to be available
C27_Witness ==
    /\ pc = "costed"
    /\ config = DefaultConfig
    /\ cost_args.staff_count = MAX_STAFF_PER_SHIFT
    /\ IntOfShare(cost_args.staff_count, 60) = 15
    /\ \E i \in DOMAIN config.SKILL_REQUIREMENTS :
          IntOfShare(cost_args.staff_count, config.SKILL_REQUIREMENTS[i]) = 15

\* C29: under the default configuration a record with UpperBound = 0 gets
\* OptimalStaff = MIN_STAFF_PER_SHIFT with service_level = 1,
\* overtime_hours = 0, understaffing_cost = 0 and capacity_utilization = 0.
C29_NoDemandMinimumStaff ==
    (pc = "optimized" /\ config = DefaultConfig /\ row.UpperBound = 0)
        => /\ Returned(result)
           /\ result.OptimalStaff = MIN_STAFF_PER_SHIFT
           /\ result.service_level.num = result.service_level.den
           /\ result.ServiceLevel = result.service_level
           /\ result.overtime_hours = 0
           /\ result.OvertimeHours = 0
           /\ result.understaffing_cost = Zero
           /\ result.capacity_utilization.num = 0
           /\ result.CapacityUtilization = result.capacity_utilization

\* a search for no demand on a Sunday, decided by the first scan
C29_Witness ==
    /\ SearchReturned
    /\ config = DefaultConfig
    /\ row.UpperBound = 0
    /\ row.Date = 6
    /\ evals = MAX_STAFF_PER_SHIFT - MIN_STAFF_PER_SHIFT + 1

\* the OptimalStaff of the record of the last search with another UpperBound
OptimalStaffAt(upper_bound) ==
    optimize_shift_staffing(config, [row EXCEPT !.UpperBound = upper_bound]).OptimalStaff

\* C30: under the default configuration, for a fixed date and order type,
\* OptimalStaff is non-decreasing in UpperBound, also from a demand decided
\* by the feasible pass to one decided by the fallback pass.
C30_OptimalStaffMonotone ==
    (pc = "optimized" /\ config = DefaultConfig)
        => /\ Returned(result)
           /\ \A v \in Demands :
                 v <= row.UpperBound => OptimalStaffAt(v) <= result.OptimalStaff

\* a demand decided by the fallback pass, above a demand that the feasible
\* pass decides with fewer staff
C30_Witness ==
    /\ SearchReturned
    /\ config = DefaultConfig
    /\ FeasibleSet = {}
    /\ \E v \in Demands :
          /\ v < row.UpperBound
          /\ OptimalStaffAt(v) < result.OptimalStaff
          /\ AtLeastTarget(
                 calculate_total_cost(config, OptimalStaffAt(v), v,
                                      row.OrderType, row.Date).service_level)

---------------------------------------------------------------------------
(* Binary floating point *)

\* The program's numbers are IEEE 754 binary64.  A natural number of any
\* size is the sequence of its digits in base 2^15, the lowest first and the
\* highest not 0; a float is [neg, m, e], the number m * 2^e or its negative,
\* with m odd, or m = 0 and e = 0 and neg false.  Every operation rounds its
\* exact result to 53 significant bits, ties to even.  The numbers of the
\* program are far from the subnormal and the overflow range, which are left
\* out, as is the sign of zero, which no comparison sees.
LimbBits == 15

Precision == 53

RECURSIVE PowerOfTwo(_)
\* 2^k for 0 <= k < 31
PowerOfTwo(k) == IF k = 0 THEN 1 ELSE 2 * PowerOfTwo(k - 1)

Base == PowerOfTwo(LimbBits)

RECURSIVE BigOf(_)
\* a natural number below 2^31 as digits
BigOf(n) == IF n = 0 THEN <<>> ELSE <<n % Base>> \o BigOf(n \div Base)

RECURSIVE Trim(_)
\* without zeros at the high end
Trim(a) ==
    IF a = <<>> THEN a
    ELSE IF a[Len(a)] = 0 THEN Trim(SubSeq(a, 1, Len(a) - 1))
    ELSE a

Limb(a, i) == IF i <= Len(a) THEN a[i] ELSE 0

RECURSIVE AddFrom(_, _, _, _)
AddFrom(a, b, i, carry) ==
    IF i > Len(a) /\ i > Len(b)
    THEN IF carry = 0 THEN <<>> ELSE <<carry>>
    ELSE LET s == Limb(a, i) + Limb(b, i) + carry
         IN  <<s % Base>> \o AddFrom(a, b, i + 1, s \div Base)

\* a + b
BigAdd(a, b) == AddFrom(a, b, 1, 0)

RECURSIVE SubFrom(_, _, _, _)
SubFrom(a, b, i, borrow) ==
    IF i > Len(a) THEN <<>>
    ELSE LET d == Limb(a, i) - Limb(b, i) - borrow
         IN  IF d < 0 THEN <<d + Base>> \o SubFrom(a, b, i + 1, 1)
             ELSE <<d>> \o SubFrom(a, b, i + 1, 0)

\* a - b for a >= b
BigSub(a, b) == Trim(SubFrom(a, b, 1, 0))

RECURSIVE CmpFrom(_, _, _)
CmpFrom(a, b, i) ==
    IF i = 0 THEN 0
    ELSE IF a[i] < b[i] THEN -1
    ELSE IF a[i] > b[i] THEN 1
    ELSE CmpFrom(a, b, i - 1)

\* -1, 0, 1 as a < b, a = b, a > b
BigCmp(a, b) ==
    IF Len(a) < Len(b) THEN -1
    ELSE IF Len(a) > Len(b) THEN 1
    ELSE CmpFrom(a, b, Len(a))

RECURSIVE MulSmallFrom(_, _, _, _)
MulSmallFrom(a, k, i, carry) ==
    IF i > Len(a)
    THEN IF carry = 0 THEN <<>> ELSE <<carry>>
    ELSE LET p == a[i] * k + carry
         IN  <<p % Base>> \o MulSmallFrom(a, k, i + 1, p \div Base)

\* a * k for 0 <= k < 2^15
BigMulSmall(a, k) == IF k = 0 THEN <<>> ELSE MulSmallFrom(a, k, 1, 0)

\* a * 2^(15 n)
ShiftLimbs(a, n) == IF a = <<>> THEN a ELSE [i \in 1 .. n |-> 0] \o a

RECURSIVE MulFrom(_, _, _)
MulFrom(a, b, i) ==
    IF i > Len(b) THEN <<>>
    ELSE BigAdd(BigMulSmall(a, b[i]), ShiftLimbs(MulFrom(a, b, i + 1), 1))

\* a * b
BigMul(a, b) == MulFrom(a, b, 1)

RECURSIVE DivSmallFrom(_, _, _, _)
\* the digits of a \div k from the i-th down, rem the remainder so far
DivSmallFrom(a, k, i, rem) ==
    IF i = 0 THEN <<>>
    ELSE LET n == rem * Base + a[i]
         IN  DivSmallFrom(a, k, i - 1, n % k) \o <<n \div k>>

\* a \div k for 0 < k < 2^15
BigDivSmall(a, k) == Trim(DivSmallFrom(a, k, Len(a), 0))

\* a * 2^s
ShiftLeft(a, s) ==
    ShiftLimbs(BigMulSmall(a, PowerOfTwo(s % LimbBits)), s \div LimbBits)

\* a \div 2^s
ShiftRight(a, s) ==
    IF s \div LimbBits >= Len(a) THEN <<>>
    ELSE BigDivSmall(SubSeq(a, (s \div LimbBits) + 1, Len(a)),
                     PowerOfTwo(s % LimbBits))

RECURSIVE SmallBitLength(_)
SmallBitLength(n) == IF n = 0 THEN 0 ELSE 1 + SmallBitLength(n \div 2)

\* the number of binary digits of a
BitLength(a) ==
    IF a = <<>> THEN 0
    ELSE LimbBits * (Len(a) - 1) + SmallBitLength(a[Len(a)])

IsOdd(a) == a # <<>> /\ a[1] % 2 = 1

RECURSIVE SmallTrailingZeros(_)
SmallTrailingZeros(n) == IF n % 2 = 1 THEN 0 ELSE 1 + SmallTrailingZeros(n \div 2)

RECURSIVE TrailingZeros(_, _)
\* the number of zero binary digits at the low end of a # 0, from digit i on
TrailingZeros(a, i) ==
    IF a[i] = 0 THEN LimbBits + TrailingZeros(a, i + 1)
    ELSE SmallTrailingZeros(a[i])

\* the float n * 2^e or its negative, n with at most 53 binary digits
Float(neg, n, e) ==
    IF n = <<>> THEN [neg |-> FALSE, m |-> <<>>, e |-> 0]
    ELSE Once(TrailingZeros(n, 1), LAMBDA tz :
             [neg |-> neg, m |-> ShiftRight(n, tz), e |-> e + tz])

\* n * 2^e rounded to 53 binary digits, ties to even; inexact says that the
\* exact magnitude is above n * 2^e and below (n + 1) * 2^e
Round(neg, n, e, inexact) ==
    IF BitLength(n) <= Precision THEN Float(neg, n, e)
    ELSE Once(BitLength(n) - Precision, LAMBDA s :
         Once(ShiftRight(n, s), LAMBDA q :
         Once(BigCmp(BigSub(n, ShiftLeft(q, s)), ShiftLeft(<<1>>, s - 1)), LAMBDA c :
             LET up == c > 0 \/ (c = 0 /\ (inexact \/ IsOdd(q)))
             IN  Float(neg, IF up THEN BigAdd(q, <<1>>) ELSE q, e + s))))

\* an integer of the program, below 2^31 in magnitude
FromInt(n) == Float(n < 0, BigOf(IF n < 0 THEN -n ELSE n), 0)

\* -a
FNeg(a) == Float(~a.neg, a.m, a.e)

\* the mantissa of a at the exponent e <= a.e
Aligned(a, e) == ShiftLeft(a.m, a.e - e)

\* -1, 0, 1 as |a| < |b|, |a| = |b|, |a| > |b|
MagnitudeCmp(a, b) ==
    IF a.m = <<>> \/ b.m = <<>>
    THEN BigCmp(a.m, b.m)
    ELSE IF BitLength(a.m) + a.e < BitLength(b.m) + b.e THEN -1
    ELSE IF BitLength(a.m) + a.e > BitLength(b.m) + b.e THEN 1
    ELSE BigCmp(Aligned(a, Min(a.e, b.e)), Aligned(b, Min(a.e, b.e)))

\* -1, 0, 1 as a < b, a = b, a > b
FCmp(a, b) ==
    IF a.neg /\ ~b.neg THEN -1
    ELSE IF ~a.neg /\ b.neg THEN 1
    ELSE IF a.neg THEN MagnitudeCmp(b, a)
    ELSE MagnitudeCmp(a, b)

\* a < b
FLess(a, b) == FCmp(a, b) < 0

\* a <= b
FLessEq(a, b) == FCmp(a, b) <= 0

\* a + b
\* a + b
FAdd(a, b) ==
    IF a.m = <<>> THEN b
    ELSE IF b.m = <<>> THEN a
    ELSE Once(Min(a.e, b.e), LAMBDA e :
         Once(Aligned(a, e), LAMBDA x :
         Once(Aligned(b, e), LAMBDA y :
             IF a.neg = b.neg THEN Round(a.neg, BigAdd(x, y), e, FALSE)
             ELSE IF BigCmp(x, y) >= 0 THEN Round(a.neg, BigSub(x, y), e, FALSE)
             ELSE Round(b.neg, BigSub(y, x), e, FALSE))))

\* a - b
FSub(a, b) == FAdd(a, FNeg(b))

\* a * b
FMul(a, b) ==
    Once(BigMul(a.m, b.m), LAMBDA n : Round(a.neg # b.neg, n, a.e + b.e, FALSE))

RECURSIVE QuotientDigit(_, _, _, _)
\* the largest digit q with lo <= q < hi and d * q <= r
QuotientDigit(r, d, lo, hi) ==
    IF hi - lo = 1 THEN lo
    ELSE LET mid == (lo + hi) \div 2
         IN  IF BigCmp(BigMulSmall(d, mid), r) <= 0
             THEN QuotientDigit(r, d, mid, hi)
             ELSE QuotientDigit(r, d, lo, mid)

\* the digit of a quotient: the largest q < Base with d * q <= r, for
\* r < d * Base.  The highest digit of d and the digits of r above it bound
\* q from both sides.
Digit(r, d) ==
    IF Len(d) = 1 THEN (Limb(r, 1) + Base * Limb(r, 2)) \div d[1]
    ELSE IF Len(r) < Len(d) THEN 0
    ELSE LET high == Limb(r, Len(d)) + Base * Limb(r, Len(d) + 1)
             lo   == high \div (d[Len(d)] + 1)
             hi   == Min(Base - 1, (high + 1) \div d[Len(d)])
         IN  QuotientDigit(r, d, lo, hi + 1)

RECURSIVE LongDivision(_, _, _)
\* the quotient and the remainder by d of the digits of n from the i-th up
LongDivision(n, d, i) ==
    IF i > Len(n) THEN [q |-> <<>>, r |-> <<>>]
    ELSE Once(LongDivision(n, d, i + 1), LAMBDA high :
         Once(Trim(<<n[i]>> \o high.r), LAMBDA r :
         Once(Digit(r, d), LAMBDA q :
             [q |-> Trim(<<q>> \o high.q),
              r |-> BigSub(r, BigMulSmall(d, q))])))

\* a / b for b # 0: the quotient of the mantissas to 55 binary digits or
\* more, the divisor shifted to fill its highest digit
FDiv(a, b) ==
    IF a.m = <<>> THEN a
    ELSE Once(LimbBits * Len(b.m) - BitLength(b.m), LAMBDA t :
         Once(Precision + 2 + BitLength(b.m) - BitLength(a.m), LAMBDA k :
         Once(LongDivision(ShiftLeft(a.m, k + t), ShiftLeft(b.m, t), 1), LAMBDA div :
             Round(a.neg # b.neg, div.q, a.e - b.e - k, div.r # <<>>))))

\* int(a): the integer part, towards zero, below 2^30 in magnitude
FInt(a) ==
    Once(IF a.e >= 0 THEN ShiftLeft(a.m, a.e) ELSE ShiftRight(a.m, -a.e), LAMBDA n :
        IF a.neg THEN -(Limb(n, 1) + Base * Limb(n, 2))
        ELSE Limb(n, 1) + Base * Limb(n, 2))

---------------------------------------------------------------------------
(* calculate_total_cost as the interpreter computes it *)

FZero == FromInt(0)

FOne == FromInt(1)

\* a decimal literal of the source or of a request: the float nearest to
\* n / den, den a power of ten
Decimal(n, den) == FDiv(FromInt(n), FromInt(den))

\* min(a, b) of Python: b when b < a, else a
FMin(a, b) == IF FLess(b, a) THEN b ELSE a

\* ABSENTEEISM_RATES as the floats of its literals
FloatAbsenteeismRates ==
    << Decimal(ABSENTEEISM_RATES[1], 100), Decimal(ABSENTEEISM_RATES[2], 100),
       Decimal(ABSENTEEISM_RATES[3], 100), Decimal(ABSENTEEISM_RATES[4], 100),
       Decimal(ABSENTEEISM_RATES[5], 100), Decimal(ABSENTEEISM_RATES[6], 100),
       Decimal(ABSENTEEISM_RATES[7], 100) >>

\* BREAK_COVERAGE_FACTOR = 0.2
FloatBreakCoverageFactor == Decimal(BREAK_COVERAGE_FACTOR, 100)

\* the 0.6 of calculate_skills_penalty
FloatAvailableShare == Decimal(60, 100)

RECURSIVE FloatShares(_, _)
\* the required fractions of the skills i..Len as floats
FloatShares(requirements, i) ==
    IF i > Len(requirements) THEN <<>>
    ELSE <<Decimal(requirements[i], 100)>> \o FloatShares(requirements, i + 1)

\* a configuration with its amounts as the floats of their literals
FloatConfig(cfg) ==
    [ REGULAR_RATE          |-> Decimal(cfg.REGULAR_RATE, 100),
      OVERTIME_RATE         |-> Decimal(cfg.OVERTIME_RATE, 100),
      MIN_STAFF_PER_SHIFT   |-> cfg.MIN_STAFF_PER_SHIFT,
      MAX_STAFF_PER_SHIFT   |-> cfg.MAX_STAFF_PER_SHIFT,
      TARGET_SERVICE_LEVEL  |-> Decimal(cfg.TARGET_SERVICE_LEVEL, 100),
      UNDERSTAFFING_PENALTY |-> Decimal(cfg.UNDERSTAFFING_PENALTY, 100),
      SKILL_REQUIREMENTS    |-> FloatShares(cfg.SKILL_REQUIREMENTS, 1) ]

\* max(1, int(staff_count * share))
FloatCount(staff_count, share) ==
    Max(1, FInt(FMul(FromInt(staff_count), share)))

RECURSIVE FloatSkillsPenaltyFrom(_, _, _)
\* the for loop of calculate_skills_penalty over the skills i..Len, in dollars
FloatSkillsPenaltyFrom(cfg, staff_count, i) ==
    IF i > Len(cfg.SKILL_REQUIREMENTS) THEN 0
    ELSE LET required_count  == FloatCount(staff_count, cfg.SKILL_REQUIREMENTS[i])
             available_count == FloatCount(staff_count, FloatAvailableShare)
             shortage        == required_count - available_count
         IN  (IF available_count < required_count THEN shortage * 50 ELSE 0)
             + FloatSkillsPenaltyFrom(cfg, staff_count, i + 1)

\* staff_count * (1 - absenteeism_rate) * (1 - BREAK_COVERAGE_FACTOR) * base_productivity
FloatTotalCapacity(staff_count, order_type, day_of_week) ==
    LET absenteeism_rate == FloatAbsenteeismRates[day_of_week + 1]
        effective_staff  == FMul(FromInt(staff_count), FSub(FOne, absenteeism_rate))
        productive_staff == FMul(effective_staff, FSub(FOne, FloatBreakCoverageFactor))
    IN  FMul(productive_staff, FromInt(base_productivity(order_type)))

\* min(staff_count * 4, shortage / base_productivity) when the forecast exceeds
\* the capacity, else 0
FloatOvertimeHours(staff_count, forecast_volume, capacity, order_type) ==
    IF FLess(capacity, forecast_volume)
    THEN FMin(FromInt(staff_count * 4),
              FDiv(FSub(forecast_volume, capacity),
                   FromInt(base_productivity(order_type))))
    ELSE FZero

\* total_capacity + (overtime_hours * base_productivity)
FloatFinalCapacity(capacity, ot_hours, order_type) ==
    FAdd(capacity, FMul(ot_hours, FromInt(base_productivity(order_type))))

\* missed_orders * UNDERSTAFFING_PENALTY when the forecast exceeds the final capacity
FloatUnderstaffingCost(cfg, forecast_volume, capacity) ==
    IF FLess(capacity, forecast_volume)
    THEN FMul(FSub(forecast_volume, capacity), cfg.UNDERSTAFFING_PENALTY)
    ELSE FZero

\* service_level without the cap: final_capacity / forecast_volume
FloatServiceLevelUncapped(forecast_volume, capacity) ==
    IF FLess(FZero, forecast_volume)
    THEN FDiv(capacity, forecast_volume)
    ELSE FOne

\* min(1.0, final_capacity / forecast_volume) if forecast_volume > 0 else 1.0
FloatServiceLevel(forecast_volume, capacity) ==
    IF FLess(FZero, forecast_volume)
    THEN FMin(FOne, FDiv(capacity, forecast_volume))
    ELSE FOne

\* the breakdown of the amounts computed so far
FloatBreakdown(cfg, staff_count, forecast_volume, ot_hours, capacity) ==
    LET regular_cost   == FMul(FromInt(staff_count * 8), cfg.REGULAR_RATE)
        overtime_cost  == FMul(ot_hours, cfg.OVERTIME_RATE)
        understaffing  == FloatUnderstaffingCost(cfg, forecast_volume, capacity)
        skills_penalty == FromInt(FloatSkillsPenaltyFrom(cfg, staff_count, 1))
    IN  [ total_cost           |-> FAdd(FAdd(FAdd(regular_cost, overtime_cost),
                                             understaffing), skills_penalty),
          regular_cost         |-> regular_cost,
          overtime_cost        |-> overtime_cost,
          understaffing_cost   |-> understaffing,
          skills_penalty       |-> skills_penalty,
          overtime_hours       |-> ot_hours,
          service_level        |-> FloatServiceLevel(forecast_volume, capacity),
          capacity_utilization |-> IF FLess(FZero, capacity)
                                   THEN FDiv(forecast_volume, capacity)
                                   ELSE FZero ]

\* calculate_total_cost with every amount a float
FloatTotalCost(cfg, staff_count, forecast_volume, order_type, day_of_week) ==
    LET base     == FloatTotalCapacity(staff_count, order_type, day_of_week)
        ot_hours == FloatOvertimeHours(staff_count, forecast_volume, base, order_type)
        capacity == FloatFinalCapacity(base, ot_hours, order_type)
    IN  FloatBreakdown(cfg, staff_count, forecast_volume, ot_hours, capacity)

---------------------------------------------------------------------------
(* The cost model in floating point: the state machine *)

\* the class as written, and the configuration with a skills penalty
FloatConfigs == {FloatConfig(DefaultConfig), FloatConfig(SkilledConfig)}

\* number of steps of the demand grid
MaxFloatDemand == 4

\* 63 orders, in tenths of an order
FloatStep == 630

\* forecast volumes as a caller sends them, literals with one decimal: the
\* multiples of 63 orders, 131.1 orders and the 150 orders of the test suite
FloatDemands ==
    {Decimal(k * FloatStep, 10) : k \in 0 .. MaxFloatDemand}
        \cup {Decimal(1311, 10), Decimal(1500, 10)}

FloatInit ==
    /\ config \in FloatConfigs
    /\ pc = "configured"
    /\ row = None
    /\ result = None
    /\ evals = 0
    /\ cost_args = None
    /\ cost_metrics = None
    /\ NoSynthesis
    /\ NoForecaster
    /\ NoApi

\* a client calls calculate_total_cost
CalculateTotalCostCall ==
    /\ pc = "ready"
    /\ \E staff_count \in StaffCounts(config), forecast_volume \in FloatDemands,
          order_type \in OrderTypes, day_of_week \in Weekdays :
          cost_args' = [ staff_count |-> staff_count,
                         forecast_volume |-> forecast_volume,
                         order_type |-> order_type, weekday |-> day_of_week ]
    /\ pc' = "calling"
    /\ UNCHANGED <<config, row, result, evals, cost_metrics>>
    /\ UNCHANGED <<svars, fvars, avars>>

\* calculate_total_cost returns its breakdown
CalculateTotalCostReturn ==
    /\ pc = "calling"
    /\ cost_metrics' = FloatTotalCost(config, cost_args.staff_count,
                                      cost_args.forecast_volume,
                                      cost_args.order_type, cost_args.weekday)
    /\ pc' = "costed"
    /\ UNCHANGED <<config, row, result, evals, cost_args>>
    /\ UNCHANGED <<svars, fvars, avars>>

FloatNext ==
    \/ CostOptimizerInit
    \/ CalculateTotalCostCall
    \/ CalculateTotalCostReturn
    \/ Consume

SpecFloat == FloatInit /\ [][FloatNext]_vars

---------------------------------------------------------------------------
(* Properties of the cost model in floating point *)

\* a call of calculate_total_cost has returned
FloatCosted == pc = "costed" /\ cost_args # None /\ cost_metrics # None

\* total_capacity of the call that returned
CostedBaseCapacity ==
    FloatTotalCapacity(cost_args.staff_count, cost_args.order_type, cost_args.weekday)

\* final_capacity of the call that returned
CostedFinalCapacity ==
    FloatFinalCapacity(CostedBaseCapacity, cost_metrics.overtime_hours,
                       cost_args.order_type)

\* staff_count * 4
OvertimeCap == FromInt(cost_args.staff_count * 4)

\* C21: overtime_hours and overtime_cost are 0 whenever forecast_volume <=
\* base capacity, and otherwise overtime_hours = min(4 x staff_count,
\* shortage / base_productivity); hence overtime_hours never exceeds
\* 4 x staff_count, and final capacity never exceeds forecast_volume unless
\* base capacity already does.
C21_OvertimeFillsTheShortage ==
    FloatCosted =>
        /\ FLessEq(cost_args.forecast_volume, CostedBaseCapacity)
              => /\ cost_metrics.overtime_hours = FZero
                 /\ cost_metrics.overtime_cost = FZero
        /\ FLess(CostedBaseCapacity, cost_args.forecast_volume)
              => cost_metrics.overtime_hours =
                     FMin(OvertimeCap,
                          FDiv(FSub(cost_args.forecast_volume, CostedBaseCapacity),
                               FromInt(base_productivity(cost_args.order_type))))
        /\ FLessEq(cost_metrics.overtime_hours, OvertimeCap)
        /\ FLess(cost_args.forecast_volume, CostedFinalCapacity)
              => FLess(cost_args.forecast_volume, CostedBaseCapacity)

\* C28: understaffing_cost > 0 only if overtime_hours = 4 x staff_count, and
\* a breakdown with overtime below the cap has service_level = 1.
C28_PenaltyOnlyAfterTheCap ==
    FloatCosted =>
        /\ FLess(FZero, cost_metrics.understaffing_cost)
              => cost_metrics.overtime_hours = OvertimeCap
        /\ FLess(cost_metrics.overtime_hours, OvertimeCap)
              => cost_metrics.service_level = FOne

\* the breakdown of the call that returned, with one more on the shift
CostedWithOneMore ==
    FloatTotalCost(config, cost_args.staff_count + 1, cost_args.forecast_volume,
                   cost_args.order_type, cost_args.weekday)

\* C7: for a fixed forecast_volume, date and order type the service_level
\* returned by calculate_total_cost is non-decreasing in staff_count over the
\* range, also across the switch between the overtime-capped and the
\* overtime-uncapped branch.  It is stated for each staff count and the next,
\* which is the same as for every pair s1 <= s2.
C7_ServiceLevelMonotoneInFloats ==
    (/\ FloatCosted
     /\ cost_args.staff_count >= config.MIN_STAFF_PER_SHIFT
     /\ cost_args.staff_count < config.MAX_STAFF_PER_SHIFT)
        => FLessEq(cost_metrics.service_level, CostedWithOneMore.service_level)

\* the amounts of a breakdown
CostFields ==
    {"regular_cost", "overtime_cost", "understaffing_cost", "skills_penalty",
     "total_cost"}

\* C22: for every staff_count > 0 and forecast_volume >= 0 the breakdown has
\* regular_cost, overtime_cost, understaffing_cost, skills_penalty and
\* total_cost >= 0 and a service_level in [0, 1], which is
\* min(1, final_capacity / forecast_volume) when forecast_volume > 0 and 1
\* when forecast_volume = 0.
C22_CostsNonNegativeServiceLevelInUnitInterval ==
    (/\ FloatCosted
     /\ cost_args.staff_count > 0
     /\ FLessEq(FZero, cost_args.forecast_volume))
        => /\ \A field \in CostFields : FLessEq(FZero, cost_metrics[field])
           /\ FLessEq(FZero, cost_metrics.service_level)
           /\ FLessEq(cost_metrics.service_level, FOne)
           /\ FLess(FZero, cost_args.forecast_volume)
                 => cost_metrics.service_level =
                        FMin(FOne, FDiv(CostedFinalCapacity, cost_args.forecast_volume))
           /\ cost_args.forecast_volume = FZero
                 => cost_metrics.service_level = FOne

\* a breakdown with every amount positive and a service level below 1
C22_Witness ==
    /\ FloatCosted
    /\ \A field \in CostFields : FLess(FZero, cost_metrics[field])
    /\ FLess(FZero, cost_metrics.service_level)
    /\ FLess(cost_metrics.service_level, FOne)
    /\ cost_metrics.overtime_hours = OvertimeCap

============================================================================
